---- MODULE Spec2Model ----
(***************************************************************************)
(* A model of the simulation core of world-sim: the EventBus, the          *)
(* TimeSystem, the Planner and the World that wires them together.         *)
(*                                                                         *)
(* An optional value (T | null in the source) is a sequence of length at   *)
(* most one: << >> is null, <<v>> is the value v.                          *)
(***************************************************************************)
EXTENDS Integers, Sequences, FiniteSets, TLC

VARIABLES
    routineGenerator,  \* the routine generator a stand-alone Planner was constructed with
    planner,           \* Planner.currentPlan of that Planner: << >> or <<DailyPlan>>
    query,             \* its last getCurrentPlan call, << >> or <<[time, result]>>
    listeners,         \* EventBus.listeners: event type -> handlers in insertion order
    wildcardListeners, \* EventBus.wildcardListeners, in insertion order
    eventLog,          \* EventBus.eventLog
    throwers,          \* the subscribed handlers whose body ends by throwing
    gameTime,          \* TimeSystem.time: day, hour, minute, speed, isPaused
    world,             \* the World on the bus: id, characters, conversations,
                       \* environment, logs and timestamps; NoWorld without one
    now,               \* what Date.now() returns
    clockRun,          \* of a clock ticked on its own: the time it started at, its
                       \* unpaused ticks and the hour and day events they published
    lastCall,          \* the last call if it published an event: its arguments, the
                       \* state it started from and the trace of what it did
    memoryStream,      \* a MemoryStream: memories, importanceAccumulator, diffusionLog
    reflectedAt,       \* how many memories the stream held when it was constructed
                       \* or its accumulator was last reset
    localStorage       \* the browser's localStorage and whether it can be written:
                       \* items (key -> string), available, quota

planVars == <<routineGenerator, planner, query>>

busVars == <<listeners, wildcardListeners, eventLog, throwers, gameTime, world, now>>

memVars == <<memoryStream, reflectedAt>>

vars == <<routineGenerator, planner, query, listeners, wildcardListeners, eventLog,
          throwers, gameTime, world, now, clockRun, lastCall, memoryStream,
          reflectedAt, localStorage>>

----------------------------------------------------------------------------
(* Bounds of the model *)

\* longest plan list per tier of a DailyPlan handed to Planner.setDailyPlan
MaxTierLen == 2
\* highest day index a plan is initialised for
MaxDay == 2
\* EventBus.maxLogSize of the model's buses (the constructor's default is 1000)
MaxLogSize == 2
\* most subscriptions held by a bus at a time
MaxSubscriptions == 3
\* most ticks of the clock that drives a stand-alone bus
MaxBusTicks == 2
\* most unpaused ticks of a clock ticked on its own
MaxTicks == 60
\* latest value of Date.now()
MaxNow == 2
\* most lines of the simulation log when a conversation starts
MaxLogLines == 3
\* most memories of a MemoryStream
MaxMemories == 3
\* largest topK asked of a MemoryStream
MaxTopK == 4
\* most memories added to a MemoryStream that counts towards a reflection
MaxAdded == 16
\* most calls of recordDiffusion on a MemoryStream
MaxDiffusions == 2
\* largest width and height of a GameMap
MaxSide == 3
\* most conversations stored by a ConversationManager
MaxConversations == 2
\* most messages said in the conversations of a ConversationManager
MaxMessages == 2
\* most conversations, and most messages, around the calls with ids that name nothing
MaxStale == 1
\* most messages said in a conversation that goes on past the turn limit
MaxTurns == 11
\* most calls of pause, resume and togglePause on a TimeSystem
MaxPauseCalls == 4

\* the events published on a bus whose log is compared with all of them
MaxPublished == 4

----------------------------------------------------------------------------
(* Planner.ts: plans *)

createPlan(description, startHour, startMinute, duration) ==
    [description |-> description,
     startTime   |-> [hour |-> startHour, minute |-> startMinute],
     duration    |-> duration,
     status      |-> "pending"]

Min2(a, b) == IF a <= b THEN a ELSE b

Min3(a, b, c) == Min2(a, Min2(b, c))

CeilDiv60(n) == (n + 59) \div 60

\* the description of the hourly chunk that starts currentMinute minutes into the plan
HourlyDescription(plan, currentMinute) ==
    plan.description \o " (" \o ToString((currentMinute \div 60) + 1) \o "/"
        \o ToString(CeilDiv60(plan.duration)) \o ")"

\* the loop of decomposePlanToHourly with an hour cursor that is never advanced
RECURSIVE HourlyLoopStuckHour(_, _, _, _, _)
HourlyLoopStuckHour(plan, currentMinute, currentHour, currentMin, hourlyPlans) ==
    IF ~(currentMinute < plan.duration) THEN hourlyPlans
    ELSE LET remainingInHour == 60 - currentMin
             remainingInPlan == plan.duration - currentMinute
             chunkDuration   == Min3(remainingInHour, remainingInPlan, 60)
             chunk == [description |-> HourlyDescription(plan, currentMinute),
                       startTime   |-> [hour |-> currentHour, minute |-> currentMin],
                       duration    |-> chunkDuration,
                       status      |-> "pending"]
             nextMin == currentMin + chunkDuration
         IN  HourlyLoopStuckHour(plan, currentMinute + chunkDuration,
                 currentHour,
                 IF nextMin >= 60 THEN nextMin - 60 ELSE nextMin,
                 Append(hourlyPlans, chunk))

\* the while loop of decomposePlanToHourly
RECURSIVE HourlyLoop(_, _, _, _, _)
HourlyLoop(plan, currentMinute, currentHour, currentMin, hourlyPlans) ==
    IF ~(currentMinute < plan.duration) THEN hourlyPlans
    ELSE LET remainingInHour == 60 - currentMin
             remainingInPlan == plan.duration - currentMinute
             chunkDuration   == Min3(remainingInHour, remainingInPlan, 60)
             chunk == [description |-> HourlyDescription(plan, currentMinute),
                       startTime   |-> [hour |-> currentHour, minute |-> currentMin],
                       duration    |-> chunkDuration,
                       status      |-> "pending"]
             nextMin == currentMin + chunkDuration
         IN  HourlyLoop(plan, currentMinute + chunkDuration,
                 IF nextMin >= 60 THEN currentHour + 1 ELSE currentHour,
                 IF nextMin >= 60 THEN nextMin - 60 ELSE nextMin,
                 Append(hourlyPlans, chunk))

decomposePlanToHourly(plan) ==
    HourlyLoop(plan, 0, plan.startTime.hour, plan.startTime.minute, << >>)

----------------------------------------------------------------------------
(* routines.ts: the shipped daily routines *)

theoretical_physicist ==
    << createPlan("Wake up at precisely 6:15 AM", 6, 15, 15),
       createPlan("Morning bathroom routine (exactly 11 minutes)", 6, 30, 11),
       createPlan("Eat breakfast - cereal with 1/4 cup of milk on Mondays", 6, 45, 30),
       createPlan("Watch morning cartoons (Doctor Who reruns)", 7, 15, 45),
       createPlan("Walk to Caltech (Leonard drives)", 8, 0, 30),
       createPlan("Work on string theory equations at Caltech", 8, 30, 210),
       createPlan("Lunch at Caltech cafeteria - it's Thai food Thursday!", 12, 0, 45),
       createPlan("Continue physics research at Caltech", 12, 45, 195),
       createPlan("Leave Caltech", 16, 0, 30),
       createPlan("Play Halo 3 or World of Warcraft", 16, 30, 90),
       createPlan("Watch vintage TV shows", 18, 0, 60),
       createPlan("Order dinner - Chinese food on Tuesdays", 19, 0, 60),
       createPlan("Comic book store visit or board game night", 20, 0, 120),
       createPlan("Prepare for bed with exact routine", 22, 0, 30),
       createPlan("Sleep", 22, 30, 480) >>

experimental_physicist ==
    << createPlan("Wake up", 7, 0, 30),
       createPlan("Morning routine and breakfast", 7, 30, 45),
       createPlan("Drive Sheldon to Caltech", 8, 15, 30),
       createPlan("Work on laser experiments at Caltech", 8, 45, 195),
       createPlan("Lunch at Caltech", 12, 0, 45),
       createPlan("Continue experimental work at Caltech", 12, 45, 195),
       createPlan("Drive home from Caltech", 16, 0, 30),
       createPlan("Check on Penny or hang out with friends", 16, 30, 90),
       createPlan("Dinner", 18, 0, 60),
       createPlan("Video games or comic store with the guys", 19, 0, 120),
       createPlan("Watch TV or try to have alone time", 21, 0, 60),
       createPlan("Prepare for bed", 22, 0, 30),
       createPlan("Sleep", 22, 30, 510) >>

waitress ==
    << createPlan("Wake up (usually late)", 9, 0, 30),
       createPlan("Morning routine", 9, 30, 45),
       createPlan("Quick breakfast", 10, 15, 30),
       createPlan("Practice lines for auditions", 10, 45, 75),
       createPlan("Get ready for work", 12, 0, 60),
       createPlan("Work lunch shift at Cheesecake Factory", 13, 0, 180),
       createPlan("Short break at work", 16, 0, 30),
       createPlan("Work dinner shift at Cheesecake Factory", 16, 30, 210),
       createPlan("End shift and clean up", 20, 0, 30),
       createPlan("Hang out with Leonard and the guys", 20, 30, 90),
       createPlan("Watch reality TV or relax", 22, 0, 60),
       createPlan("Sleep", 23, 0, 600) >>

aerospace_engineer ==
    << createPlan("Wake up to mom yelling", 7, 30, 15),
       createPlan("Eat breakfast mom prepared", 7, 45, 30),
       createPlan("Morning routine (using mom's bathroom)", 8, 15, 30),
       createPlan("Drive to Caltech", 8, 45, 30),
       createPlan("Work on NASA projects at Caltech", 9, 15, 165),
       createPlan("Lunch at Caltech cafeteria - hit on women", 12, 0, 60),
       createPlan("Continue engineering work at Caltech", 13, 0, 180),
       createPlan("Leave Caltech", 16, 0, 30),
       createPlan("Hang out with Raj", 16, 30, 90),
       createPlan("Dinner at mom's house", 18, 0, 60),
       createPlan("Comic store or video games with the guys", 19, 0, 120),
       createPlan("Try online dating or work on pickup lines", 21, 0, 60),
       createPlan("Go to sleep at mom's house", 22, 0, 540) >>

astrophysicist ==
    << createPlan("Wake up", 7, 0, 30),
       createPlan("Morning yoga and meditation", 7, 30, 30),
       createPlan("Breakfast", 8, 0, 30),
       createPlan("Drive to Caltech", 8, 30, 30),
       createPlan("Research on planetary formation at Caltech", 9, 0, 180),
       createPlan("Lunch at Caltech with Howard", 12, 0, 60),
       createPlan("Continue astrophysics research at Caltech", 13, 0, 180),
       createPlan("Leave Caltech", 16, 0, 30),
       createPlan("Hang out with Howard", 16, 30, 90),
       createPlan("Dinner", 18, 0, 60),
       createPlan("Video games or comic store with friends", 19, 0, 120),
       createPlan("Watch romantic comedies alone", 21, 0, 60),
       createPlan("Sleep", 22, 0, 540) >>

comic_book_store_owner ==
    << createPlan("Wake up alone in small apartment", 8, 0, 30),
       createPlan("Contemplate existence while eating cereal", 8, 30, 30),
       createPlan("Open the Comic Center of Pasadena", 9, 0, 30),
       createPlan("Wait for customers at the Comic Store", 9, 30, 150),
       createPlan("Eat sad lunch alone at the store", 12, 0, 30),
       createPlan("Organize comics nobody will buy at Comic Store", 12, 30, 180),
       createPlan("Hope someone comes in to the Comic Store", 15, 30, 90),
       createPlan("New comic day prep at Comic Store", 17, 0, 60),
       createPlan("Close store, count meager earnings", 18, 0, 30),
       createPlan("Eat dinner alone", 18, 30, 60),
       createPlan("Draw sketches that will never be sold", 19, 30, 90),
       createPlan("Watch TV alone", 21, 0, 60),
       createPlan("Sleep", 22, 0, 600) >>

artist ==
    << createPlan("Wake up and morning routine", 7, 0, 60),
       createPlan("Have breakfast", 8, 0, 30),
       createPlan("Work on art projects at the gallery", 9, 0, 180),
       createPlan("Take a break and have lunch", 12, 0, 60),
       createPlan("Continue art work or meet with clients", 13, 0, 180),
       createPlan("Take a walk for inspiration", 16, 0, 60),
       createPlan("Have dinner", 18, 0, 60),
       createPlan("Relax and socialize", 19, 0, 120),
       createPlan("Prepare for bed", 21, 0, 60) >>

bookstore_owner ==
    << createPlan("Wake up and morning routine", 6, 30, 60),
       createPlan("Have breakfast and read", 7, 30, 45),
       createPlan("Open the bookstore", 8, 30, 30),
       createPlan("Manage store and help customers", 9, 0, 180),
       createPlan("Have lunch", 12, 0, 60),
       createPlan("Continue store operations", 13, 0, 240),
       createPlan("Close store and inventory", 17, 0, 60),
       createPlan("Have dinner", 18, 0, 60),
       createPlan("Read or socialize", 19, 0, 120),
       createPlan("Prepare for bed", 21, 0, 60) >>

barista ==
    << createPlan("Wake up early", 5, 30, 60),
       createPlan("Have breakfast", 6, 30, 30),
       createPlan("Commute to cafe", 7, 0, 30),
       createPlan("Open cafe and prepare", 7, 30, 30),
       createPlan("Morning rush - serve customers", 8, 0, 180),
       createPlan("Take a break", 11, 0, 30),
       createPlan("Lunch service", 11, 30, 150),
       createPlan("Afternoon shift", 14, 0, 180),
       createPlan("End shift and clean up", 17, 0, 60),
       createPlan("Have dinner and relax", 18, 0, 120),
       createPlan("Socialize or personal time", 20, 0, 90),
       createPlan("Prepare for bed", 21, 30, 60) >>

getGenericRoutine ==
    << createPlan("Wake up and morning routine", 7, 0, 60),
       createPlan("Have breakfast", 8, 0, 30),
       createPlan("Work or activities", 9, 0, 180),
       createPlan("Have lunch", 12, 0, 60),
       createPlan("Continue activities", 13, 0, 240),
       createPlan("Have dinner", 18, 0, 60),
       createPlan("Evening relaxation", 19, 0, 120),
       createPlan("Prepare for bed", 21, 0, 60) >>

\* routines.ts getDefaultRoutine: the occupation's routine.  The model's occupations are
\* the strings below; each is resolved as the source's substring tests resolve it.
Occupations ==
    {"Theoretical Physicist", "Experimental Physicist", "Waitress", "Aerospace Engineer",
     "Astrophysicist", "Comic Book Store Owner", "Artist", "Bookstore Owner", "Barista",
     "Plumber"}

getDefaultRoutine(occupation) ==
    CASE occupation = "Theoretical Physicist"  -> theoretical_physicist
      [] occupation = "Experimental Physicist" -> experimental_physicist
      [] occupation = "Waitress"               -> waitress
      [] occupation = "Aerospace Engineer"     -> aerospace_engineer
      [] occupation = "Astrophysicist"         -> astrophysicist
      [] occupation = "Comic Book Store Owner" -> comic_book_store_owner
      [] occupation = "Artist"                 -> artist
      [] occupation = "Bookstore Owner"        -> bookstore_owner
      [] occupation = "Barista"                -> barista
      [] OTHER                                 -> getGenericRoutine

\* A routine generator injected through the Planner's constructor instead of
\* getDefaultRoutine: blocks that start in the last minute of an hour, last one
\* minute, or end at midnight.
injectedRoutine(occupation) ==
    << createPlan(occupation \o " early", 0, 0, 1),
       createPlan(occupation \o " odd", 10, 59, 62),
       createPlan(occupation \o " late", 22, 59, 61) >>

Generators == {"getDefaultRoutine", "injected"}

callRoutineGenerator(gen, occupation) ==
    IF gen = "getDefaultRoutine" THEN getDefaultRoutine(occupation)
    ELSE injectedRoutine(occupation)

----------------------------------------------------------------------------
(* Planner.ts: getCurrentPlan and the Planner class *)

planStartOf(plan) == plan.startTime.hour * 60 + plan.startTime.minute

planEndOf(plan) == planStartOf(plan) + plan.duration

\* one of the three for-loops of getCurrentPlan, with the plan's end minute included
RECURSIVE ScanTierClosedEnd(_, _, _)
ScanTierClosedEnd(plans, currentMinutes, i) ==
    IF i > Len(plans) THEN << >>
    ELSE IF currentMinutes >= planStartOf(plans[i]) /\ currentMinutes <= planEndOf(plans[i])
         THEN <<plans[i]>>
         ELSE ScanTierClosedEnd(plans, currentMinutes, i + 1)

\* one of the three for-loops of getCurrentPlan: the first plan of the list whose
\* [planStart, planEnd) holds currentMinutes
RECURSIVE ScanTier(_, _, _)
ScanTier(plans, currentMinutes, i) ==
    IF i > Len(plans) THEN << >>
    ELSE IF currentMinutes >= planStartOf(plans[i]) /\ currentMinutes < planEndOf(plans[i])
         THEN <<plans[i]>>
         ELSE ScanTier(plans, currentMinutes, i + 1)

getCurrentPlan(dailyPlan, time) ==
    LET currentMinutes == time.hour * 60 + time.minute
        detailed == ScanTier(dailyPlan.detailedPlans, currentMinutes, 1)
        hourly   == ScanTier(dailyPlan.hourlyPlans, currentMinutes, 1)
        broad    == ScanTier(dailyPlan.broadStrokes, currentMinutes, 1)
    IN  IF detailed # << >> THEN detailed
        ELSE IF hourly # << >> THEN hourly
        ELSE broad

RECURSIVE FlatMapHourly(_, _)
FlatMapHourly(broadStrokes, i) ==
    IF i > Len(broadStrokes) THEN << >>
    ELSE decomposePlanToHourly(broadStrokes[i]) \o FlatMapHourly(broadStrokes, i + 1)

\* Planner.initializeDailyPlan: the DailyPlan it builds and stores
PlannerInitializeDailyPlan(gen, occupation, day) ==
    LET broadStrokes == callRoutineGenerator(gen, occupation)
    IN  [day           |-> day,
         broadStrokes  |-> broadStrokes,
         hourlyPlans   |-> FlatMapHourly(broadStrokes, 1),
         detailedPlans |-> << >>]

\* Planner.getCurrentPlan: null without a daily plan
PlannerGetCurrentPlan(currentPlan, time) ==
    IF currentPlan = << >> THEN << >> ELSE getCurrentPlan(currentPlan[1], time)

\* Planner.getCurrentAction
PlannerGetCurrentAction(currentPlan, time) ==
    LET plan == PlannerGetCurrentPlan(currentPlan, time)
    IN  IF plan = << >> THEN "Standing idle" ELSE plan[1].description

----------------------------------------------------------------------------
(* EventBus.ts *)

\* types.ts GameEventType
EventTypes ==
    {"time:tick", "time:hour-changed", "time:day-changed", "time:paused", "time:resumed",
     "time:speed-changed", "character:moved", "character:action-changed",
     "character:added", "character:removed", "memory:added",
     "memory:reflection-triggered", "conversation:started", "conversation:message",
     "conversation:ended", "world:loaded", "world:saved", "world:reset"}

(* A JavaScript Set keeps its values in insertion order.  While a forEach runs over
   it, a deleted value leaves an empty slot that is skipped and an added value is
   appended, so it is still visited.  The model keeps the slots while a call runs
   and drops the empty ones when the call returns, no iteration being under way. *)
Empty == "<empty>"

SetHas(entries, value) == \E i \in 1 .. Len(entries) : entries[i] = value

SetAdd(entries, value) == IF SetHas(entries, value) THEN entries ELSE Append(entries, value)

SetDelete(entries, value) ==
    [i \in 1 .. Len(entries) |-> IF entries[i] = value THEN Empty ELSE entries[i]]

SetValues(entries) == SelectSeq(entries, LAMBDA value : value # Empty)

(* The operators below take and return st, the state a call works on: st.listeners,
   st.wildcardListeners, st.eventLog, st.throwers, st.world and st.now as the variables
   of the same names, st.time as gameTime, st.exception (an exception is propagating) and st.trace, the events
   published, the handlers called and the emits returned from so far in the call. *)

\* EventBus.on
on(st, type, handler) == [st EXCEPT !.listeners[type] = SetAdd(@, handler)]

\* EventBus.off, and the unsubscribe function that on returns
off(st, type, handler) == [st EXCEPT !.listeners[type] = SetDelete(@, handler)]

\* EventBus.onAll
onAll(st, handler) == [st EXCEPT !.wildcardListeners = SetAdd(@, handler)]

\* the unsubscribe function that onAll returns
offAll(st, handler) == [st EXCEPT !.wildcardListeners = SetDelete(@, handler)]

\* EventBus.logEvent that drops the event pushed last when the log is full
logEventPopping(st, event) ==
    LET pushed == Append(st.eventLog, event)
    IN  [st EXCEPT !.eventLog = IF Len(pushed) > MaxLogSize THEN st.eventLog ELSE pushed]

\* EventBus.logEvent
logEvent(st, event) ==
    LET pushed == Append(st.eventLog, event)
    IN  [st EXCEPT !.eventLog = IF Len(pushed) > MaxLogSize THEN Tail(pushed) ELSE pushed]

Trace(st, op, type, handler, phase, depth) ==
    [st EXCEPT !.trace = Append(@, [op |-> op, type |-> type, handler |-> handler,
                                    phase |-> phase, depth |-> depth])]

\* a handler call that is not wrapped in try/catch
TryCatchMissing(st) == st

\* the catch block round a handler call: the error is logged and delivery goes on
TryCatch(st) == [st EXCEPT !.exception = FALSE]

\* the handlers that user code subscribes, named after what their body does
UserHandlers == {"plain", "republisher", "subscriber", "unsubscriber"}

\* the event "republisher" publishes and the subscription "subscriber" and
\* "unsubscriber" make and cancel
RepublishedType == "memory:added"

LateType == "time:tick"

NoPayload == [none |-> TRUE]

RECURSIVE emit(_, _, _, _)
RECURSIVE dispatch(_, _, _, _)
RECURSIVE forEachHandler(_, _, _, _, _)
RECURSIVE callHandler(_, _, _, _)

\* String.padStart(2, '0') of a number below 100
PadStart2(n) == IF n < 10 THEN "0" \o ToString(n) ELSE ToString(n)

\* World.addToLog
addToLog(st, message) ==
    LET timestamp == "Day " \o ToString(st.time.day) \o " " \o PadStart2(st.time.hour)
                        \o ":" \o PadStart2(st.time.minute)
        pushed    == Append(st.world.simulationLog, "[" \o timestamp \o "] " \o message)
    IN  [st EXCEPT !.world.simulationLog =
            IF Len(pushed) > 1000 THEN SubSeq(pushed, Len(pushed) - 499, Len(pushed))
            ELSE pushed]

\* Character.initializeDailyPlan
initializeDailyPlan(character, day) ==
    LET plan == PlannerInitializeDailyPlan("getDefaultRoutine", character.occupation, day)
    IN  [character EXCEPT !.planner = <<plan>>, !.currentPlan = <<plan>>]

\* CharacterManager.initializeDailyPlans
initializeDailyPlans(st, day) ==
    [st EXCEPT !.world.characters =
        [i \in 1 .. Len(@) |-> initializeDailyPlan(@[i], day)]]

\* Character.setAction
setAction(st, i, action, depth) ==
    emit([st EXCEPT !.world.characters[i].currentAction = action],
         "character:action-changed",
         [characterId |-> st.world.characters[i].id, action |-> action], depth)

RECURSIVE updateActionsFromPlans(_, _, _, _)
\* CharacterManager.updateActionsFromPlans, from character i on, each character by
\* Character.updateActionFromPlan
updateActionsFromPlans(st, at, i, depth) ==
    IF st.exception \/ i > Len(st.world.characters) THEN st
    ELSE updateActionsFromPlans(
             setAction(st, i, PlannerGetCurrentAction(st.world.characters[i].planner, at),
                       depth),
             at, i + 1, depth)

\* the handlers World.setupEventListeners subscribes
WorldHandlers ==
    <<[type |-> "time:day-changed", handler |-> "World.onDayChanged"],
      [type |-> "time:tick", handler |-> "World.onTick"],
      [type |-> "conversation:started", handler |-> "World.onConversationStarted"],
      [type |-> "conversation:ended", handler |-> "World.onConversationEnded"]>>

RECURSIVE JoinNames(_, _, _)
\* participants.map(id => characters.get(id)?.name ?? id).join(' and ')
JoinNames(characters, participants, i) ==
    IF i > Len(participants) THEN ""
    ELSE LET named == SelectSeq(characters, LAMBDA c : c.id = participants[i])
             name  == IF named = << >> THEN participants[i] ELSE named[1].name
         IN  (IF i > 1 THEN " and " ELSE "") \o name
                \o JoinNames(characters, participants, i + 1)

\* the end of a handler's body: it throws if it is one of the throwers
Throwing(done, throws) ==
    IF done.exception THEN done ELSE [done EXCEPT !.exception = throws]

\* the body of a handler: what it does with the event, then the throw that ends it
\* if it is one of st.throwers
callHandler(st, handler, event, depth) ==
    Throwing(
            CASE handler = "World.onDayChanged" ->
                    initializeDailyPlans(
                        addToLog(st, "Day " \o ToString(event.payload.newDay) \o " begins"),
                        event.payload.newDay)
              [] handler = "World.onTick" ->
                    updateActionsFromPlans(st, st.time, 1, depth + 1)
              [] handler = "World.onConversationStarted" ->
                    addToLog(st, "Conversation started between "
                        \o JoinNames(st.world.characters, event.payload.participants, 1))
              [] handler = "World.onConversationEnded" ->
                    addToLog(st, "Conversation ended")
              [] handler = "plain"        -> st
              [] handler = "logger"       -> addToLog(st, event.type)
              [] handler = "republisher"  -> emit(st, RepublishedType, NoPayload, depth + 1)
              [] handler = "subscriber"   ->
                    on(Trace(st, "on", LateType, "plain", "", depth), LateType, "plain")
              [] handler = "unsubscriber" ->
                    off(Trace(st, "off", LateType, "plain", "", depth), LateType, "plain"),
        handler \in st.throwers)

\* handlers.forEach and wildcardListeners.forEach of emit, from slot i on
forEachHandler(st, event, phase, i, depth) ==
    LET entries == IF phase = "type" THEN st.listeners[event.type]
                   ELSE st.wildcardListeners
    IN  IF st.exception \/ i > Len(entries) THEN st
        ELSE IF entries[i] = Empty THEN forEachHandler(st, event, phase, i + 1, depth)
        ELSE forEachHandler(
                 TryCatch(callHandler(Trace(st, "call", event.type, entries[i], phase, depth),
                                      entries[i], event, depth)),
                 event, phase, i + 1, depth)

\* emit returns, unless an exception is propagating
Return(st, type, depth) ==
    IF st.exception THEN st ELSE Trace(st, "return", type, "", "", depth)

\* the body of EventBus.emit
dispatch(st, type, payload, depth) ==
    LET event == [type |-> type, payload |-> payload]
    IN  Return(
            forEachHandler(
                forEachHandler(
                    logEvent(Trace(st, "publish", type, "", "", depth), event),
                    event, "type", 1, depth),
                event, "wildcard", 1, depth),
            type, depth)

\* an emit that drops the events published while another is being delivered
emitDropNested(st, type, payload, depth) ==
    IF depth > 0 THEN st ELSE dispatch(st, type, payload, depth)

\* EventBus.emit
emit(st, type, payload, depth) == dispatch(st, type, payload, depth)

----------------------------------------------------------------------------
(* TimeSystem.ts *)

DEFAULT_TIME == [day |-> 1, hour |-> 8, minute |-> 0, speed |-> 1, isPaused |-> FALSE]

RECURSIVE emitHourChanged(_, _, _, _)
RECURSIVE emitDayChanged(_, _, _, _)

\* the loop of tick that publishes time:hour-changed for each hour that passed
emitHourChanged(st, oldTime, i, hours) ==
    IF st.exception \/ i >= hours THEN st
    ELSE LET newHour == (oldTime.hour + i + 1) % 24
             payload == [oldHour |-> (newHour - 1 + 24) % 24, newHour |-> newHour,
                         day |-> oldTime.day + ((oldTime.hour + i + 1) \div 24)]
         IN  emitHourChanged(emit(st, "time:hour-changed", payload, 0),
                             oldTime, i + 1, hours)

\* the loop of tick that publishes time:day-changed for each day that passed
emitDayChanged(st, oldTime, i, days) ==
    IF st.exception \/ i >= days THEN st
    ELSE LET payload == [oldDay |-> oldTime.day + i, newDay |-> oldTime.day + i + 1]
         IN  emitDayChanged(emit(st, "time:day-changed", payload, 0),
                            oldTime, i + 1, days)

\* a day overflow that is missed when the hour reaches 24 exactly
daysToAddAbove24(hour) == IF hour > 24 THEN hour \div 24 ELSE 0

\* tick: the days that passed
daysToAdd(hour) == IF hour >= 24 THEN hour \div 24 ELSE 0

\* tick: the hours that passed
hoursToAdd(minute) == IF minute >= 60 THEN minute \div 60 ELSE 0

\* the time a tick leads to: minute, hour and day after the overflows
tickedTime(oldTime) ==
    LET minute == oldTime.minute + oldTime.speed
        hour   == oldTime.hour + hoursToAdd(minute)
    IN  [oldTime EXCEPT !.minute = minute % 60, !.hour = hour % 24,
                        !.day = oldTime.day + daysToAdd(hour)]

\* the hour and day events of a tick, published when the new time is stored
emitOverflowsStored(st, oldTime) ==
    emitDayChanged(
        emitHourChanged([st EXCEPT !.time = tickedTime(oldTime)], oldTime, 0,
                        hoursToAdd(oldTime.minute + oldTime.speed)),
        oldTime, 0,
        daysToAdd(oldTime.hour + hoursToAdd(oldTime.minute + oldTime.speed)))

\* the hour and day events of a tick
emitOverflows(st, oldTime) ==
    emitDayChanged(
        emitHourChanged(st, oldTime, 0, hoursToAdd(oldTime.minute + oldTime.speed)),
        oldTime, 0,
        daysToAdd(oldTime.hour + hoursToAdd(oldTime.minute + oldTime.speed)))

\* a payload of time:tick that carries the time before the tick
tickPayloadOfOldTime(oldTime, newTime) == [time |-> oldTime, delta |-> newTime.speed]

\* { time: this.getTime(), delta: this.time.speed }, this.time being newTime
tickPayload(oldTime, newTime) == [time |-> newTime, delta |-> newTime.speed]

\* the end of a tick that stores the new time after it has published time:tick
publishThenStore(st, newTime) ==
    IF st.exception THEN st
    ELSE [emit(st, "time:tick", tickPayload(st.time, newTime), 0) EXCEPT !.time = newTime]

\* the end of tick: the new time is stored, then time:tick is published
storeThenPublish(st, newTime) ==
    IF st.exception THEN st
    ELSE emit([st EXCEPT !.time = newTime], "time:tick", tickPayload(st.time, newTime), 0)

\* tick without the early return of a paused clock
tickWhilePaused(st) == storeThenPublish(emitOverflows(st, st.time), tickedTime(st.time))

\* TimeSystem.tick
tick(st) ==
    IF st.time.isPaused THEN st
    ELSE storeThenPublish(emitOverflows(st, st.time), tickedTime(st.time))

\* pause without the test of the paused flag
pauseUnchecked(st) ==
    emit([st EXCEPT !.time.isPaused = TRUE], "time:paused",
         [time |-> [st.time EXCEPT !.isPaused = TRUE]], 0)

\* TimeSystem.pause
pause(st) ==
    IF st.time.isPaused THEN st
    ELSE LET paused == [st EXCEPT !.time.isPaused = TRUE]
         IN  emit(paused, "time:paused", [time |-> paused.time], 0)

\* TimeSystem.resume
resume(st) ==
    IF ~st.time.isPaused THEN st
    ELSE LET resumed == [st EXCEPT !.time.isPaused = FALSE]
         IN  emit(resumed, "time:resumed", [time |-> resumed.time], 0)

\* TimeSystem.togglePause
togglePause(st) == IF st.time.isPaused THEN resume(st) ELSE pause(st)

\* a minute before midnight on day 1, where the short runs of a clock start
ClockStartTime == [DEFAULT_TIME EXCEPT !.hour = 23, !.minute = 59]

\* the minutes from one time to another
Elapsed(from, to) ==
    (to.day - from.day) * 1440 + (to.hour - from.hour) * 60 + (to.minute - from.minute)

----------------------------------------------------------------------------
\* the state a call starts from, and what it leaves in the variables
BusState ==
    [listeners |-> listeners, wildcardListeners |-> wildcardListeners,
     eventLog |-> eventLog, throwers |-> throwers, time |-> gameTime,
     world |-> world, now |-> now,
     exception |-> FALSE, trace |-> << >>]

Returned(st) ==
    /\ listeners' = [type \in EventTypes |-> SetValues(st.listeners[type])]
    /\ wildcardListeners' = SetValues(st.wildcardListeners)
    /\ eventLog' = st.eventLog
    /\ throwers' = st.throwers
    /\ gameTime' = st.time
    /\ world' = st.world
    /\ now' = st.now

Call(op, type, handler, st) ==
    [op |-> op, type |-> type, handler |-> handler, before |-> BusState,
     trace |-> st.trace, uncaught |-> st.exception]

NoCall == [op |-> "none"]

NoRun == [ticks |-> 0]

\* a localStorage nothing was ever written to
NoStorage == [items |-> << >>, available |-> TRUE, quota |-> 0]

NoWorld == [id |-> ""]

NoStream == [memories |-> << >>, importanceAccumulator |-> 0, diffusionLog |-> << >>]

\* no MemoryStream
NoMemory ==
    /\ memoryStream = NoStream
    /\ reflectedAt = 0

\* no bus, no clock and no World
Unwired ==
    /\ listeners = [type \in EventTypes |-> << >>]
    /\ wildcardListeners = << >>
    /\ eventLog = << >>
    /\ throwers = {}
    /\ gameTime = DEFAULT_TIME
    /\ world = NoWorld
    /\ now = 0
    /\ clockRun = NoRun
    /\ NoMemory

NoBus ==
    /\ Unwired
    /\ lastCall = NoCall

----------------------------------------------------------------------------
(* World.ts: a World built from a template of two characters and a small environment *)

\* the character templates of the world template
TemplateCharacters ==
    <<[id |-> "sheldon", name |-> "Sheldon Cooper", occupation |-> "Theoretical Physicist"],
      [id |-> "penny", name |-> "Penny", occupation |-> "Waitress"]>>

\* template.environment.tree; state is << >> for a node without one
TemplateTree ==
    [name |-> "Pasadena", type |-> "world", state |-> << >>, children |->
        <<[name |-> "living room", type |-> "room", state |-> << >>, children |->
            <<[name |-> "couch", type |-> "object",
               state |-> <<"Sheldon's spot is on the left">>, children |-> << >>],
              [name |-> "TV", type |-> "object", state |-> <<"off">>,
               children |-> << >>]>>]>>]

\* { ...defaults, ...partial }
Spread(defaults, partial) ==
    [key \in DOMAIN defaults |->
        IF key \in DOMAIN partial THEN partial[key] ELSE defaults[key]]

\* createCharacterFromTemplate and the Character constructor
createCharacterFromTemplate(template) ==
    [id |-> template.id, name |-> template.name, occupation |-> template.occupation,
     currentAction |-> "Starting the day", currentPlan |-> << >>, planner |-> << >>]

RECURSIVE addCharacters(_, _, _)
\* the constructor's loop over template.characters, each added by CharacterManager.add
addCharacters(st, templates, i) ==
    IF i > Len(templates) THEN st
    ELSE addCharacters(
             emit([st EXCEPT !.world.characters =
                      Append(@, createCharacterFromTemplate(templates[i]))],
                  "character:added", [characterId |-> templates[i].id], 0),
             templates, i + 1)

RECURSIVE setupEventListeners(_, _)
\* World.setupEventListeners
setupEventListeners(st, i) ==
    IF i > Len(WorldHandlers) THEN st
    ELSE setupEventListeners(on(st, WorldHandlers[i].type, WorldHandlers[i].handler), i + 1)

\* the subsystems as the World constructor creates them
NewSubsystems(config, tree, dateNow) ==
    [listeners |-> [type \in EventTypes |-> << >>], wildcardListeners |-> << >>,
     eventLog |-> << >>, throwers |-> {},
     time |-> Spread(DEFAULT_TIME, config.startTime),
     world |-> [id |-> config.id, characters |-> << >>, conversations |-> << >>,
                activeConversation |-> << >>,
                environment |-> tree, diffusionLog |-> << >>, simulationLog |-> << >>,
                createdAt |-> dateNow, updatedAt |-> dateNow],
     now |-> dateNow, exception |-> FALSE, trace |-> << >>]

\* config.startTime.day ?? 1
StartDay(config) == IF "day" \in DOMAIN config.startTime THEN config.startTime.day ELSE 1

\* new World(config, template)
NewWorld(config, tree, dateNow) ==
    addToLog(
        setupEventListeners(
            initializeDailyPlans(
                addCharacters(NewSubsystems(config, tree, dateNow), TemplateCharacters, 1),
                StartDay(config)),
            1),
        "World initialized")

\* what Math.random().toString(36).substr(2, 9) may return
RandomSuffixes == {"k3j9x2m1q", "z8w4t6r0p"}

\* World.fromTemplate
fromTemplate(startTime, tree, dateNow, random) ==
    NewWorld([id |-> "world-" \o ToString(dateNow) \o "-" \o random,
              startTime |-> Spread(DEFAULT_TIME, startTime)],
             tree, dateNow)

\* the variables hold a newly built World and its subsystems
Constructed(st) ==
    /\ listeners = st.listeners
    /\ wildcardListeners = st.wildcardListeners
    /\ eventLog = st.eventLog
    /\ throwers = st.throwers
    /\ gameTime = st.time
    /\ world = st.world
    /\ now = st.now

\* a call has returned: what it leaves in the variables, and its record
Called(op, st) ==
    /\ Returned(st)
    /\ lastCall' = Call(op, "", "", st)

----------------------------------------------------------------------------
(* Conversations, the environment, and saving and loading a World *)

\* Map.set: the value replaces the one stored under its id or is added last
MapSet(entries, value) ==
    IF \E i \in 1 .. Len(entries) : entries[i].id = value.id
    THEN [i \in 1 .. Len(entries) |-> IF entries[i].id = value.id THEN value ELSE entries[i]]
    ELSE Append(entries, value)

\* ConversationManager.start; endTime is << >> while the conversation goes on
startConversation(st, participantIds, location) ==
    LET conversation == [id |-> "conv-" \o ToString(st.now), participants |-> participantIds,
                         messages |-> << >>, startTime |-> st.now, endTime |-> << >>,
                         location |-> location]
    IN  emit([st EXCEPT !.world.conversations = MapSet(@, conversation),
                        !.world.activeConversation = <<conversation.id>>],
             "conversation:started",
             [conversationId |-> conversation.id, participants |-> participantIds,
              location |-> location], 0)

\* ConversationManager.end without the test that the id is the active conversation's
endConversationClearingActive(st, conversationId) ==
    LET found == SelectSeq(st.world.conversations, LAMBDA c : c.id = conversationId)
    IN  IF found = << >> THEN st
        ELSE emit([st EXCEPT !.world.conversations =
                                MapSet(@, [found[1] EXCEPT !.endTime = <<st.now>>]),
                             !.world.activeConversation = << >>],
                  "conversation:ended",
                  [conversationId |-> conversationId,
                   participants |-> found[1].participants,
                   messageCount |-> Len(found[1].messages)], 0)

\* ConversationManager.end
endConversation(st, conversationId) ==
    LET found == SelectSeq(st.world.conversations, LAMBDA c : c.id = conversationId)
    IN  IF found = << >> THEN st
        ELSE emit([st EXCEPT !.world.conversations =
                                MapSet(@, [found[1] EXCEPT !.endTime = <<st.now>>]),
                             !.world.activeConversation =
                                IF @ = <<conversationId>> THEN << >> ELSE @],
                  "conversation:ended",
                  [conversationId |-> conversationId,
                   participants |-> found[1].participants,
                   messageCount |-> Len(found[1].messages)], 0)

\* String.toLowerCase of the names of the model
ToLowerCase(name) ==
    CASE name = "TV"       -> "tv"
      [] name = "Pasadena" -> "pasadena"
      [] name = "Read a book" -> "read a book"
      [] OTHER             -> name

RECURSIVE hasObject(_, _)
\* what updateInTree returns: the object is the node or lies below it
hasObject(node, objectName) ==
    \/ ToLowerCase(node.name) = ToLowerCase(objectName) /\ node.type = "object"
    \/ \E i \in 1 .. Len(node.children) : hasObject(node.children[i], objectName)

RECURSIVE updateInTree(_, _, _)
RECURSIVE updateInChildren(_, _, _, _)
\* updateInTree of Environment.updateObjectState: the node after the update
updateInTree(node, objectName, newState) ==
    IF ToLowerCase(node.name) = ToLowerCase(objectName) /\ node.type = "object"
    THEN [node EXCEPT !.state = <<newState>>]
    ELSE [node EXCEPT !.children = updateInChildren(@, 1, objectName, newState)]

\* its loop over the children, which stops at the first child that has the object
updateInChildren(children, i, objectName, newState) ==
    IF i > Len(children) THEN children
    ELSE IF hasObject(children[i], objectName)
         THEN [children EXCEPT ![i] = updateInTree(@, objectName, newState)]
         ELSE updateInChildren(children, i + 1, objectName, newState)

\* Character.serialize
serializeCharacter(character) ==
    [id |-> character.id, name |-> character.name, occupation |-> character.occupation,
     currentAction |-> character.currentAction, currentPlan |-> character.planner]

\* Character.deserialize: the constructor hands data.currentPlan to the planner
deserializeCharacter(data) ==
    [id |-> data.id, name |-> data.name, occupation |-> data.occupation,
     currentAction |-> data.currentAction, currentPlan |-> data.currentPlan,
     planner |-> data.currentPlan]

\* the WorldState that World.serialize returns
WorldStateOf(st) ==
    [config        |-> [id |-> st.world.id, startTime |-> st.time],
     time          |-> st.time,
     characters    |-> [i \in 1 .. Len(st.world.characters) |->
                          serializeCharacter(st.world.characters[i])],
     conversations |-> st.world.conversations,
     environment   |-> st.world.environment,
     diffusionLog  |-> st.world.diffusionLog,
     simulationLog |-> st.world.simulationLog,
     createdAt     |-> st.world.createdAt,
     updatedAt     |-> st.world.updatedAt]

\* World.serialize: what it does to the World
serialize(st) == [st EXCEPT !.world.updatedAt = st.now]

RECURSIVE deserializeConversations(_, _, _)
\* ConversationManager.deserialize, from conversation i of the data on
deserializeConversations(st, data, i) ==
    IF i > Len(data) THEN st
    ELSE deserializeConversations(
             [st EXCEPT !.world.conversations = MapSet(@, data[i]),
                        !.world.activeConversation =
                            IF data[i].endTime = << >> THEN <<data[i].id>> ELSE @],
             data, i + 1)

\* CharacterManager.deserialize: the map is cleared, then data.forEach throws a
\* TypeError if the state has no characters
deserializeCharacters(st, state) ==
    IF "characters" \notin DOMAIN state
    THEN [st EXCEPT !.world.characters = << >>, !.exception = TRUE]
    ELSE [st EXCEPT !.world.characters =
                       [i \in 1 .. Len(state.characters) |->
                           deserializeCharacter(state.characters[i])]]

\* ConversationManager.deserialize: the map and the active conversation are cleared,
\* then data.forEach throws a TypeError if the state has no conversations
deserializeAll(st, state) ==
    IF st.exception THEN st
    ELSE IF "conversations" \notin DOMAIN state
    THEN [st EXCEPT !.world.conversations = << >>, !.world.activeConversation = << >>,
                    !.exception = TRUE]
    ELSE deserializeConversations(
             [st EXCEPT !.world.conversations = << >>, !.world.activeConversation = << >>],
             state.conversations, 1)

\* the end of loadState: the logs and the timestamps, then world:loaded
restoreLogs(st, state) ==
    IF st.exception THEN st
    ELSE emit([st EXCEPT !.world.diffusionLog = state.diffusionLog,
                         !.world.simulationLog = state.simulationLog,
                         !.world.createdAt = state.createdAt,
                         !.world.updatedAt = state.updatedAt],
              "world:loaded", [worldId |-> st.world.id], 0)

\* World.loadState
loadState(st, state) ==
    restoreLogs(deserializeAll(deserializeCharacters([st EXCEPT !.time = state.time],
                                                     state),
                               state),
                state)

----------------------------------------------------------------------------
(* A World whose state is saved and loaded into a new World of the same template *)

SaveInit ==
    /\ routineGenerator = "getDefaultRoutine"
    /\ localStorage = NoStorage
    /\ planner = << >>
    /\ query = << >>
    /\ \E random \in RandomSuffixes :
        Constructed(fromTemplate([hour |-> 23, minute |-> 59], TemplateTree, 1, random))
    /\ clockRun = NoRun
    /\ NoMemory
    /\ lastCall = NoCall

SaveTick ==
    /\ Elapsed(ClockStartTime, gameTime) < MaxBusTicks
    /\ Called("World.tick", tick(BusState))
    /\ UNCHANGED <<planVars, localStorage, memVars, clockRun>>

\* time passes
DateNow ==
    /\ now < MaxNow
    /\ now' = now + 1
    /\ lastCall' = NoCall
    /\ UNCHANGED <<planVars, localStorage, memVars, clockRun, listeners, wildcardListeners, eventLog, throwers,
                   gameTime, world>>

StartConversation ==
    /\ world.activeConversation = << >>
    /\ Len(world.simulationLog) < MaxLogLines
    /\ Called("conversations.start",
              startConversation(BusState, <<"sheldon", "penny">>, [x |-> 2, y |-> 2]))
    /\ UNCHANGED <<planVars, localStorage, memVars, clockRun>>

EndConversation ==
    /\ world.activeConversation # << >>
    /\ Called("conversations.end", endConversation(BusState, world.activeConversation[1]))
    /\ UNCHANGED <<planVars, localStorage, memVars, clockRun>>

UpdateObjectState(objectName, newState) ==
    /\ world' = [world EXCEPT !.environment = updateInTree(@, objectName, newState)]
    /\ lastCall' = NoCall
    /\ UNCHANGED <<planVars, localStorage, memVars, clockRun, listeners, wildcardListeners, eventLog, throwers,
                   gameTime, now>>

\* the state serialize returned is loaded into a World newly built from the same
\* template: in the same page, where the template's tree is the object the saved
\* World has updated, or after a reload, where it is as the template defines it
Loaded(saved, loaded) ==
    /\ Returned(loaded)
    /\ lastCall' = [op |-> "World.loadState", saved |-> saved, loaded |-> WorldStateOf(loaded)]

\* the new World: World.fromTemplate(template), as WorldManager.loadWorld builds it,
\* or new World(state.config, template)
FreshWorld(saved, tree, random, fromConfig) ==
    IF fromConfig THEN NewWorld(saved.config, tree, now)
    ELSE fromTemplate([hour |-> 23, minute |-> 59], tree, now, random)

SaveAndLoad(random, reloaded, fromConfig) ==
    /\ Loaded(WorldStateOf(serialize(BusState)),
              loadState(FreshWorld(WorldStateOf(serialize(BusState)),
                                   IF reloaded THEN TemplateTree ELSE world.environment,
                                   random, fromConfig),
                        WorldStateOf(serialize(BusState))))
    /\ UNCHANGED <<planVars, localStorage, memVars, clockRun>>

SaveNext ==
    \/ SaveTick
    \/ DateNow
    \/ StartConversation
    \/ EndConversation
    \/ \E newState \in {"on", "off"} : UpdateObjectState("tv", newState)
    \/ \E random \in RandomSuffixes, reloaded, fromConfig \in BOOLEAN :
        SaveAndLoad(random, reloaded, fromConfig)

SpecSave == SaveInit /\ [][SaveNext]_vars

----------------------------------------------------------------------------
(* A World ticked, paused and resumed until the end of day MaxDay *)

\* template.startTime
TemplateStartTimes ==
    { << >>, [hour |-> 23, minute |-> 31], [hour |-> 22, minute |-> 0, speed |-> 60] }

WorldInit ==
    /\ routineGenerator = "getDefaultRoutine"
    /\ localStorage = NoStorage
    /\ planner = << >>
    /\ query = << >>
    /\ \E startTime \in TemplateStartTimes, random \in RandomSuffixes :
        Constructed(fromTemplate(startTime, TemplateTree, 1, random))
    /\ clockRun = NoRun
    /\ NoMemory
    /\ lastCall = NoCall

\* World.tick
WorldTick ==
    /\ gameTime.day <= MaxDay
    /\ Called("World.tick", tick(BusState))
    /\ UNCHANGED <<planVars, localStorage, memVars, clockRun>>

\* World.pause
WorldPause ==
    /\ ~gameTime.isPaused
    /\ Called("World.pause", pause(BusState))
    /\ UNCHANGED <<planVars, localStorage, memVars, clockRun>>

\* World.resume
WorldResume ==
    /\ gameTime.isPaused
    /\ Called("World.resume", resume(BusState))
    /\ UNCHANGED <<planVars, localStorage, memVars, clockRun>>

WorldNext == WorldTick \/ WorldPause \/ WorldResume

SpecWorld == WorldInit /\ [][WorldNext]_vars

----------------------------------------------------------------------------
(* A stand-alone EventBus and the user code that subscribes to it and publishes *)

BusTypes == {LateType, RepublishedType}

Subscriptions ==
    Len(wildcardListeners) + Len(listeners[LateType]) + Len(listeners[RepublishedType])

BusInit ==
    /\ routineGenerator = "getDefaultRoutine"
    /\ localStorage = NoStorage
    /\ planner = << >>
    /\ query = << >>
    /\ listeners = [type \in EventTypes |-> << >>]
    /\ wildcardListeners = << >>
    /\ eventLog = << >>
    /\ throwers \in SUBSET {"plain", "republisher"}
    /\ gameTime = DEFAULT_TIME
    /\ world = NoWorld
    /\ now = 0
    /\ clockRun = NoRun
    /\ NoMemory
    /\ lastCall = NoCall

\* "republisher" is subscribed to LateType alone: subscribed to the event it
\* publishes, or to every event, it would publish without end
On(type, handler) ==
    /\ Subscriptions < MaxSubscriptions
    /\ handler = "republisher" => type = LateType
    /\ LET st == on(BusState, type, handler)
       IN  Returned(st) /\ lastCall' = NoCall
    /\ UNCHANGED <<planVars, localStorage, memVars, clockRun>>

OnAll(handler) ==
    /\ Subscriptions < MaxSubscriptions
    /\ handler # "republisher"
    /\ LET st == onAll(BusState, handler)
       IN  Returned(st) /\ lastCall' = NoCall
    /\ UNCHANGED <<planVars, localStorage, memVars, clockRun>>

Off(type, handler) ==
    /\ LET st == off(BusState, type, handler)
       IN  Returned(st) /\ lastCall' = NoCall
    /\ UNCHANGED <<planVars, localStorage, memVars, clockRun>>

OffAll(handler) ==
    /\ LET st == offAll(BusState, handler)
       IN  Returned(st) /\ lastCall' = NoCall
    /\ UNCHANGED <<planVars, localStorage, memVars, clockRun>>

Emit(type) ==
    /\ LET st == emit(BusState, type, NoPayload, 0)
       IN  Returned(st) /\ lastCall' = Call("emit", type, "", st)
    /\ UNCHANGED <<planVars, localStorage, memVars, clockRun>>

BusNext ==
    \/ \E type \in BusTypes, handler \in UserHandlers : On(type, handler)
    \/ \E handler \in UserHandlers : OnAll(handler)
    \/ \E type \in BusTypes, handler \in UserHandlers : Off(type, handler)
    \/ \E handler \in UserHandlers : OffAll(handler)
    \/ \E type \in BusTypes : Emit(type)

SpecBus == BusInit /\ [][BusNext]_vars

----------------------------------------------------------------------------
(* A TimeSystem on a bus that user code has subscribed to, ticked from a minute
   before midnight on *)

\* the orders in which up to maxLen handlers of a set can have been subscribed
SubscriptionOrders(handlers, maxLen) ==
    { entries \in UNION { [1 .. len -> handlers] : len \in 0 .. maxLen } :
        \A i, j \in 1 .. Len(entries) : entries[i] = entries[j] => i = j }

ClockInit ==
    /\ routineGenerator = "getDefaultRoutine"
    /\ localStorage = NoStorage
    /\ planner = << >>
    /\ query = << >>
    /\ \E tickHandlers \in SubscriptionOrders(UserHandlers, MaxSubscriptions),
          hourHandlers \in SubscriptionOrders({"plain"}, MaxSubscriptions),
          allHandlers \in SubscriptionOrders({"plain", "subscriber"}, MaxSubscriptions) :
            /\ Len(tickHandlers) + Len(hourHandlers) + Len(allHandlers) <= MaxSubscriptions
            /\ listeners = [type \in EventTypes |->
                               CASE type = "time:tick" -> tickHandlers
                                 [] type = "time:hour-changed" -> hourHandlers
                                 [] OTHER -> << >>]
            /\ wildcardListeners = allHandlers
    /\ eventLog = << >>
    /\ throwers \in SUBSET {"plain", "republisher"}
    /\ gameTime = ClockStartTime
    /\ world = NoWorld
    /\ now = 0
    /\ clockRun = NoRun
    /\ NoMemory
    /\ lastCall = NoCall

Tick ==
    /\ Elapsed(ClockStartTime, gameTime) < MaxBusTicks
    /\ LET st == tick(BusState)
       IN  Returned(st) /\ lastCall' = Call("tick", "", "", st)
    /\ UNCHANGED <<planVars, localStorage, memVars, clockRun>>

ClockNext == Tick \/ Emit(RepublishedType)

SpecClock == ClockInit /\ [][ClockNext]_vars

----------------------------------------------------------------------------
(* EventBus.emitAsync, step by step: the call, the microtask of each handler, the
   completion of each asynchronous handler, the continuation after Promise.all *)

\* the handlers that are async functions; they settle some time after they start
AsyncHandlers == {"slow"}

\* the promise pushed for each handler, in the order of the two forEach loops
PromisesFor(handlers, phase) ==
    [i \in 1 .. Len(handlers) |->
        [handler |-> handlers[i], phase |-> phase, outcome |-> "queued",
         promise |-> "pending"]]

\* a handler promise without .catch
CatchMissing(promise) == promise

\* .catch(error => console.error(...)): a rejection becomes a fulfilment
Catch(promise) == IF promise = "rejected" THEN "fulfilled" ELSE promise

\* Promise.all
PromiseAll(promises) ==
    IF \E i \in 1 .. Len(promises) : promises[i].promise = "rejected" THEN "rejected"
    ELSE IF \A i \in 1 .. Len(promises) : promises[i].promise = "fulfilled" THEN "fulfilled"
    ELSE "pending"

\* the microtask of handler i starts only when the handlers before it have completed
CanStartInTurn(promises, i) ==
    /\ promises[i].outcome = "queued"
    /\ \A j \in 1 .. i - 1 : promises[j].outcome \notin {"queued", "awaiting"}

\* the microtasks run in the order they were queued in
CanStart(promises, i) ==
    /\ promises[i].outcome = "queued"
    /\ \A j \in 1 .. i - 1 : promises[j].outcome # "queued"

\* the synchronous part of emitAsync
emitAsync(st, type, payload) ==
    logEvent(Trace(st, "publish", type, "", "", 0), [type |-> type, payload |-> payload])

AsyncInit ==
    /\ routineGenerator = "getDefaultRoutine"
    /\ localStorage = NoStorage
    /\ planner = << >>
    /\ query = << >>
    /\ \E typeHandlers \in SubscriptionOrders({"plain", "slow"}, MaxSubscriptions),
          allHandlers \in SubscriptionOrders({"plain", "slow"}, MaxSubscriptions) :
            /\ Len(typeHandlers) + Len(allHandlers) <= MaxSubscriptions
            /\ listeners = [type \in EventTypes |->
                               IF type = RepublishedType THEN typeHandlers ELSE << >>]
            /\ wildcardListeners = allHandlers
    /\ eventLog = << >>
    /\ throwers \in SUBSET {"plain", "slow"}
    /\ gameTime = DEFAULT_TIME
    /\ world = NoWorld
    /\ now = 0
    /\ clockRun = NoRun
    /\ NoMemory
    /\ lastCall = NoCall

InFlight == lastCall.op = "emitAsync" /\ lastCall.settled = "pending"

EmitAsync(type) ==
    /\ ~InFlight
    /\ Returned(emitAsync(BusState, type, NoPayload))
    /\ lastCall' = [op |-> "emitAsync", type |-> type, settled |-> "pending",
                    promises |-> PromisesFor(listeners[type], "type")
                                    \o PromisesFor(wildcardListeners, "wildcard")]
    /\ UNCHANGED <<planVars, localStorage, memVars, clockRun>>

\* the microtask Promise.resolve().then(() => handler(event)) of promise i runs: an
\* async handler returns its promise, another handler returns or throws
StartHandler(i) ==
    /\ InFlight
    /\ i <= Len(lastCall.promises)
    /\ CanStart(lastCall.promises, i)
    /\ lastCall' = [lastCall EXCEPT
            !.promises[i].outcome =
                IF lastCall.promises[i].handler \in AsyncHandlers THEN "awaiting"
                ELSE IF lastCall.promises[i].handler \in throwers THEN "threw"
                ELSE "returned",
            !.promises[i].promise =
                IF lastCall.promises[i].handler \in AsyncHandlers THEN "pending"
                ELSE Catch(IF lastCall.promises[i].handler \in throwers THEN "rejected"
                           ELSE "fulfilled")]
    /\ UNCHANGED <<planVars, localStorage, memVars, clockRun, busVars>>

\* the promise an async handler returned settles, after every microtask queued by
\* emitAsync has run
CompleteHandler(i) ==
    /\ InFlight
    /\ i <= Len(lastCall.promises)
    /\ lastCall.promises[i].outcome = "awaiting"
    /\ \A j \in 1 .. Len(lastCall.promises) : lastCall.promises[j].outcome # "queued"
    /\ lastCall' = [lastCall EXCEPT
            !.promises[i].outcome =
                IF lastCall.promises[i].handler \in throwers THEN "rejected" ELSE "resolved",
            !.promises[i].promise =
                Catch(IF lastCall.promises[i].handler \in throwers THEN "rejected"
                      ELSE "fulfilled")]
    /\ UNCHANGED <<planVars, localStorage, memVars, clockRun, busVars>>

\* await Promise.all(promises) is over: the promise of emitAsync settles
Settle ==
    /\ InFlight
    /\ PromiseAll(lastCall.promises) # "pending"
    /\ lastCall' = [lastCall EXCEPT !.settled = PromiseAll(lastCall.promises)]
    /\ UNCHANGED <<planVars, localStorage, memVars, clockRun, busVars>>

AsyncNext ==
    \/ EmitAsync(RepublishedType)
    \/ \E i \in 1 .. MaxSubscriptions : StartHandler(i)
    \/ \E i \in 1 .. MaxSubscriptions : CompleteHandler(i)
    \/ Settle

SpecAsync == AsyncInit /\ [][AsyncNext]_vars

----------------------------------------------------------------------------
(* A TimeSystem ticked on its own, paused and resumed, from a well-formed time at an
   integer speed *)

StartHours == {0, 8, 22, 23}

StartMinutes == {0, 31, 59}

Speeds == {1, 7, 30, 59, 60}

PublishedOf(trace, type) ==
    Len(SelectSeq(trace, LAMBDA entry : entry.op = "publish" /\ entry.type = type))

TimeInit ==
    /\ routineGenerator = "getDefaultRoutine"
    /\ localStorage = NoStorage
    /\ planner = << >>
    /\ query = << >>
    /\ listeners = [type \in EventTypes |-> << >>]
    /\ wildcardListeners = << >>
    /\ eventLog = << >>
    /\ throwers = {}
    /\ \E hour \in StartHours, minute \in StartMinutes, speed \in Speeds :
        gameTime = [DEFAULT_TIME EXCEPT !.hour = hour, !.minute = minute, !.speed = speed]
    /\ world = NoWorld
    /\ now = 0
    /\ clockRun = [start |-> gameTime, ticks |-> 0, hourChanged |-> 0, dayChanged |-> 0]
    /\ NoMemory
    /\ lastCall = NoCall

TimeTick ==
    /\ clockRun.ticks < MaxTicks
    /\ LET st == tick(BusState)
       IN  /\ Returned(st)
           /\ clockRun' =
                IF gameTime.isPaused THEN clockRun
                ELSE [clockRun EXCEPT
                        !.ticks = @ + 1,
                        !.hourChanged = @ + PublishedOf(st.trace, "time:hour-changed"),
                        !.dayChanged = @ + PublishedOf(st.trace, "time:day-changed")]
           /\ lastCall' = NoCall
    /\ UNCHANGED <<planVars, localStorage, memVars, memVars>>

Pause ==
    /\ Returned(pause(BusState))
    /\ lastCall' = NoCall
    /\ UNCHANGED <<planVars, localStorage, memVars, clockRun>>

Resume ==
    /\ Returned(resume(BusState))
    /\ lastCall' = NoCall
    /\ UNCHANGED <<planVars, localStorage, memVars, clockRun>>

TimeNext == TimeTick \/ Pause \/ Resume

SpecTime == TimeInit /\ [][TimeNext]_vars

\* minutes from the start of day 1 to a time
MinutesSinceDayOne(at) == (at.day - 1) * 1440 + at.hour * 60 + at.minute

\* C1: after N unpaused ticks at an integer speed from 1 to 60 the clock is at the
\* start time plus N times speed minutes, speed and pause flag unchanged, and has
\* published one time:hour-changed per hour boundary and one time:day-changed per day
\* boundary crossed; 60 ticks at speed 1 from day 1, 23:31 lead to day 2, 00:31
\* with one event of each kind.
C1_TicksAdvanceClock ==
    LET from == MinutesSinceDayOne(clockRun.start)
        to   == from + clockRun.ticks * clockRun.start.speed
    IN  /\ gameTime.day = (to \div 1440) + 1
        /\ gameTime.hour = (to % 1440) \div 60
        /\ gameTime.minute = to % 60
        /\ gameTime.speed = clockRun.start.speed
        /\ clockRun.hourChanged = (to \div 60) - (from \div 60)
        /\ clockRun.dayChanged = (to \div 1440) - (from \div 1440)
        /\ (/\ clockRun.start.hour = 23 /\ clockRun.start.minute = 31
            /\ clockRun.start.speed = 1 /\ clockRun.ticks = 60) =>
               /\ gameTime.day = 2 /\ gameTime.hour = 0 /\ gameTime.minute = 31
               /\ clockRun.hourChanged = 1 /\ clockRun.dayChanged = 1

\* 60 ticks at speed 1 from day 1, 23:31
C1_Witness ==
    /\ clockRun.ticks = 60
    /\ clockRun.start = [DEFAULT_TIME EXCEPT !.hour = 23, !.minute = 31]
    /\ gameTime.day = 2 /\ gameTime.hour = 0 /\ gameTime.minute = 31

----------------------------------------------------------------------------
(* The stand-alone Planner: initializeDailyPlan, then getCurrentPlan calls *)

QueryHours == 0 .. 23

QueryMinutes == {0, 29, 30, 41, 59}

PlanInit ==
    /\ routineGenerator \in Generators
    /\ localStorage = NoStorage
    /\ planner = << >>
    /\ query = << >>
    /\ NoBus

InitializeDailyPlan(occupation, day) ==
    /\ planner' = <<PlannerInitializeDailyPlan(routineGenerator, occupation, day)>>
    /\ query' = << >>
    /\ UNCHANGED <<routineGenerator, localStorage, memVars, busVars, clockRun, lastCall>>

GetCurrentPlanOp(hour, minute) ==
    LET time == [hour |-> hour, minute |-> minute]
    IN  /\ query' = <<[time |-> time, result |-> PlannerGetCurrentPlan(planner, time)]>>
        /\ UNCHANGED <<routineGenerator, localStorage, memVars, planner, busVars, clockRun, lastCall>>

PlanNext ==
    \/ \E occupation \in Occupations, day \in 1 .. MaxDay :
           InitializeDailyPlan(occupation, day)
    \/ \E hour \in QueryHours, minute \in QueryMinutes : GetCurrentPlanOp(hour, minute)

SpecPlan == PlanInit /\ [][PlanNext]_vars

----------------------------------------------------------------------------
(* getCurrentPlan over daily plans handed to Planner.setDailyPlan *)

\* the plans a tier of such a daily plan is drawn from: two adjacent half hours and
\* the hour that overlaps both
TierPool(tier) ==
    { createPlan(tier \o " A", 8, 0, 30),
      createPlan(tier \o " B", 8, 30, 30),
      createPlan(tier \o " C", 8, 0, 60) }

TierLists(tier, maxLen) == UNION { [1 .. n -> TierPool(tier)] : n \in 0 .. maxLen }

SetDailyPlans ==
    [day           : {1},
     broadStrokes  : { << >>, <<createPlan("broad C", 8, 0, 60)>> },
     hourlyPlans   : TierLists("hourly", MaxTierLen),
     detailedPlans : TierLists("detailed", MaxTierLen)]

TierQueryHours == {7, 8, 9}

TierQueryMinutes == {0, 29, 30, 59}

\* Planner.setDailyPlan has been called with one of SetDailyPlans
TiersInit ==
    /\ routineGenerator = "getDefaultRoutine"
    /\ localStorage = NoStorage
    /\ planner \in { <<dailyPlan>> : dailyPlan \in SetDailyPlans }
    /\ query = << >>
    /\ NoBus

TiersNext ==
    \E hour \in TierQueryHours, minute \in TierQueryMinutes : GetCurrentPlanOp(hour, minute)

SpecTiers == TiersInit /\ [][TiersNext]_vars

----------------------------------------------------------------------------
(* Properties of the Planner *)

MinuteOfDay(time) == time.hour * 60 + time.minute

Covers(plan, minutes) ==
    /\ plan.startTime.hour * 60 + plan.startTime.minute <= minutes
    /\ minutes < plan.startTime.hour * 60 + plan.startTime.minute + plan.duration

RECURSIVE SumDurations(_, _)
SumDurations(plans, i) ==
    IF i > Len(plans) THEN 0 ELSE plans[i].duration + SumDurations(plans, i + 1)

\* hourly[i..] tiles what is left of broad[b..], `cursor` being the first minute of
\* broad[b] that no earlier chunk covers
RECURSIVE TilesFrom(_, _, _, _, _)
TilesFrom(broad, hourly, b, i, cursor) ==
    IF b > Len(broad) THEN i > Len(hourly)
    ELSE IF cursor = MinuteOfDay(broad[b].startTime) + broad[b].duration
         THEN TilesFrom(broad, hourly, b + 1, i,
                  IF b + 1 <= Len(broad) THEN MinuteOfDay(broad[b + 1].startTime) ELSE 0)
         ELSE /\ i <= Len(hourly)
              /\ MinuteOfDay(hourly[i].startTime) = cursor
              /\ hourly[i].duration \in 1 .. 60
              /\ cursor + hourly[i].duration
                     <= MinuteOfDay(broad[b].startTime) + broad[b].duration
              /\ TilesFrom(broad, hourly, b, i + 1, cursor + hourly[i].duration)

\* C8: in every DailyPlan built by initializeDailyPlan the hourly plans of each broad
\* stroke are contiguous chunks of 1..60 minutes that start at the parent's start and
\* end at its end, parent after parent, so the hourly durations sum to the broad ones.
C8_HourlyTilesBroad ==
    planner # << >> =>
        LET dailyPlan == planner[1]
        IN  /\ Len(dailyPlan.broadStrokes) > 0
            /\ TilesFrom(dailyPlan.broadStrokes, dailyPlan.hourlyPlans, 1, 1,
                   MinuteOfDay(dailyPlan.broadStrokes[1].startTime))
            /\ SumDurations(dailyPlan.hourlyPlans, 1)
                   = SumDurations(dailyPlan.broadStrokes, 1)

\* a daily plan with a broad stroke that starts inside an hour, is split into several
\* chunks and runs past midnight
C8_Witness ==
    /\ planner # << >>
    /\ \E b \in 1 .. Len(planner[1].broadStrokes) :
           /\ planner[1].broadStrokes[b].startTime.minute # 0
           /\ planner[1].broadStrokes[b].duration > 60
    /\ \E i \in 1 .. Len(planner[1].hourlyPlans) :
           planner[1].hourlyPlans[i].startTime.hour >= 24
    /\ Len(planner[1].hourlyPlans) > Len(planner[1].broadStrokes)

\* the time of day lies in the span of a broad stroke, a span that may run past 24:00
InBroadSpan(dailyPlan, time) ==
    \E b \in 1 .. Len(dailyPlan.broadStrokes) :
        \/ Covers(dailyPlan.broadStrokes[b], MinuteOfDay(time))
        \/ Covers(dailyPlan.broadStrokes[b], MinuteOfDay(time) + 24 * 60)

\* C9: getCurrentPlan returns a plan for every time of day inside the span of a broad
\* stroke of an initialised daily plan, spans past 24:00 included.
C9_TotalOverBroadSpans ==
    (planner # << >> /\ query # << >>) =>
        (InBroadSpan(planner[1], query[1].time) => query[1].result # << >>)

\* the first plan of the list that covers the minute, if any
FirstCovering(plans, minutes) ==
    IF \E i \in 1 .. Len(plans) : Covers(plans[i], minutes)
    THEN << plans[CHOOSE i \in 1 .. Len(plans) :
                    /\ Covers(plans[i], minutes)
                    /\ \A j \in 1 .. (i - 1) : ~Covers(plans[j], minutes)] >>
    ELSE << >>

\* C10: getCurrentPlan returns the first covering plan of the detailed tier, else of
\* the hourly tier, else of the broad tier, [start, start+duration) being half open,
\* and none only when no plan of any tier covers the minute.
C10_FirstCoveringByTier ==
    (planner # << >> /\ query # << >>) =>
        LET dailyPlan == planner[1]
            minutes   == MinuteOfDay(query[1].time)
            detailed  == FirstCovering(dailyPlan.detailedPlans, minutes)
            hourly    == FirstCovering(dailyPlan.hourlyPlans, minutes)
            broad     == FirstCovering(dailyPlan.broadStrokes, minutes)
        IN  query[1].result =
                IF detailed # << >> THEN detailed
                ELSE IF hourly # << >> THEN hourly
                ELSE broad

\* 08:30 is asked of detailed plans [08:00, 08:30) then [08:30, 09:00): the answer is
\* the second, the minute that ends the first
C10_Witness ==
    /\ planner # << >> /\ query # << >>
    /\ query[1].time = [hour |-> 8, minute |-> 30]
    /\ Len(planner[1].detailedPlans) = 2
    /\ planner[1].detailedPlans[1] = createPlan("detailed A", 8, 0, 30)
    /\ planner[1].detailedPlans[2] = createPlan("detailed B", 8, 30, 30)
    /\ query[1].result = <<createPlan("detailed B", 8, 30, 30)>>

----------------------------------------------------------------------------
(* Delivery by EventBus.emit *)

CallsAt(trace, depth) == SelectSeq(trace, LAMBDA entry : entry.op = "call" /\ entry.depth = depth)

CallsIn(trace, phase, depth) == SelectSeq(CallsAt(trace, depth), LAMBDA entry : entry.phase = phase)

HandlersOf(entries) == [i \in 1 .. Len(entries) |-> entries[i].handler]

Count(entries, value) == Cardinality({i \in 1 .. Len(entries) : entries[i] = value})

RECURSIVE IsSubSeq(_, _)
\* s is t with some elements left out
IsSubSeq(s, t) ==
    IF s = << >> THEN TRUE
    ELSE IF t = << >> THEN FALSE
    ELSE IF Head(s) = Head(t) THEN IsSubSeq(Tail(s), Tail(t))
    ELSE IsSubSeq(s, Tail(t))

\* the handlers subscribed when an event was published: those of its type, then the
\* wildcard ones, each list in registration order
SubscribedAtEmit(call) ==
    call.before.listeners[call.type] \o call.before.wildcardListeners

\* the unsubscribe function of a subscription was called while the event was delivered
UnsubscribedDuring(trace, type, handler) ==
    \E i \in 1 .. Len(trace) :
        trace[i].op = "off" /\ trace[i].type = type /\ trace[i].handler = handler

\* every handler subscribed to the event from the moment it is published until emit
\* returns is called once for its subscription to the type and once for its wildcard
\* subscription (no handler of the model cancels a wildcard subscription)
SubscribedThroughoutCalledOnce(call) ==
    /\ \A handler \in UserHandlers :
        (/\ SetHas(call.before.listeners[call.type], handler)
         /\ ~UnsubscribedDuring(call.trace, call.type, handler)) =>
            Count(HandlersOf(CallsIn(call.trace, "type", 0)), handler) = 1
    /\ HandlersOf(CallsIn(call.trace, "wildcard", 0)) = call.before.wildcardListeners

\* C4: emit returns after it has called exactly the handlers subscribed when it
\* was called and not unsubscribed since, those of the type in registration order
\* and then the wildcard ones in registration order, each once; a handler that is
\* not subscribed any more when the event is published is not called.
C4_EmitCallsSubscribedAtEmit ==
    lastCall.op = "emit" =>
        /\ ~lastCall.uncaught
        /\ lastCall.trace[Len(lastCall.trace)].op = "return"
        /\ IsSubSeq(HandlersOf(CallsAt(lastCall.trace, 0)), SubscribedAtEmit(lastCall))
        /\ SubscribedThroughoutCalledOnce(lastCall)

\* the call made again from the state it started in, with the given throwers
Rerun(call, throwing) ==
    LET st == [call.before EXCEPT !.throwers = throwing]
    IN  IF call.op = "tick" THEN tick(st) ELSE emit(st, call.type, NoPayload, 0)

\* the time a tick of an unpaused clock leads to
Advanced(from) ==
    LET total == (from.day - 1) * 1440 + from.hour * 60 + from.minute + from.speed
    IN  [from EXCEPT !.day = (total \div 1440) + 1, !.hour = (total % 1440) \div 60,
                     !.minute = total % 60]

\* C5: a handler that throws does not make emit throw, and the handlers are called
\* as they would be if no handler threw: the same calls in the same order, the
\* handlers subscribed throughout once each; a tick whose events reach throwing
\* handlers still stores the advanced time.
C5_ThrowingHandlerIsolated ==
    lastCall.op \in {"emit", "tick"} =>
        /\ ~lastCall.uncaught
        /\ lastCall.trace = Rerun(lastCall, {}).trace
        /\ lastCall.op = "emit" => SubscribedThroughoutCalledOnce(lastCall)
        /\ lastCall.op = "tick" => gameTime = Advanced(lastCall.before.time)

\* a tick over midnight whose events reach a throwing handler that is not the last
\* one called
C5_Witness ==
    /\ lastCall.op = "tick"
    /\ gameTime.day = 2
    /\ \E i, j \in 1 .. Len(lastCall.trace) :
        /\ i < j
        /\ lastCall.trace[i].op = "call" /\ lastCall.trace[i].handler \in throwers
        /\ lastCall.trace[j].op = "call" /\ lastCall.trace[j].type = lastCall.trace[i].type
        /\ lastCall.trace[j].depth = lastCall.trace[i].depth

\* the last n elements of a sequence
LastN(entries, n) ==
    IF Len(entries) <= n THEN entries ELSE SubSeq(entries, Len(entries) - n + 1, Len(entries))

\* the events a call published, in the order it published them
Published(trace) ==
    LET publishes == SelectSeq(trace, LAMBDA entry : entry.op = "publish")
    IN  [i \in 1 .. Len(publishes) |-> [type |-> publishes[i].type, payload |-> NoPayload]]

\* entry i of the trace is a call of a handler that publishes; j is where the emit of
\* that event returns, everything in between being part of its delivery
NestedDelivery(trace, i, j) ==
    /\ i + 1 < j /\ j <= Len(trace)
    /\ trace[i + 1].op = "publish" /\ trace[i + 1].type = RepublishedType
    /\ trace[i + 1].depth = trace[i].depth + 1
    /\ trace[j].op = "return" /\ trace[j].depth = trace[i].depth + 1
    /\ \A k \in i + 1 .. j : trace[k].depth > trace[i].depth
    /\ j < Len(trace) /\ trace[j + 1].depth = trace[i].depth

\* C6: when a handler publishes an event while another is delivered, the nested event
\* is logged and all its subscribers are called before the outer emit goes on, and
\* the outer event's handlers subscribed throughout are still called once each.
C6_EmitReentrant ==
    lastCall.op = "emit" =>
        /\ eventLog = LastN(lastCall.before.eventLog \o Published(lastCall.trace), MaxLogSize)
        /\ \A i \in 1 .. Len(lastCall.trace) :
            (lastCall.trace[i].op = "call" /\ lastCall.trace[i].handler = "republisher") =>
                \E j \in 1 .. Len(lastCall.trace) :
                    /\ NestedDelivery(lastCall.trace, i, j)
                    /\ HandlersOf(SelectSeq(SubSeq(lastCall.trace, i + 1, j),
                                            LAMBDA entry : entry.op = "call"))
                         = lastCall.before.listeners[RepublishedType]
                             \o lastCall.before.wildcardListeners
        /\ SubscribedThroughoutCalledOnce(lastCall)

\* a handler published an event that was delivered to a subscriber, and the outer
\* emit then called another handler
C6_Witness ==
    /\ lastCall.op = "emit"
    /\ \E i, j, k \in 1 .. Len(lastCall.trace) :
        /\ i < j /\ j < k
        /\ lastCall.trace[i].op = "call" /\ lastCall.trace[i].handler = "republisher"
        /\ lastCall.trace[j].op = "call" /\ lastCall.trace[j].depth = 1
        /\ lastCall.trace[k].op = "call" /\ lastCall.trace[k].depth = 0

\* the position in a trace of the first call of a handler, 0 if it was not called
FirstCallOf(trace, handler) ==
    LET calls == {i \in 1 .. Len(trace) : trace[i].op = "call" /\ trace[i].handler = handler}
    IN  IF calls = {} THEN 0 ELSE CHOOSE i \in calls : \A j \in calls : i <= j

\* C2: after an unpaused World.tick every character's currentAction is the
\* description of the plan its planner resolves for the time after the tick, or
\* 'Standing idle' if none covers it; when the tick starts a new day every character
\* has a newly generated DailyPlan for the new day, made before the actions were
\* refreshed.
C2_TickRefreshesActions ==
    (lastCall.op = "World.tick" /\ ~lastCall.before.time.isPaused) =>
        /\ \A i \in 1 .. Len(world.characters) :
            world.characters[i].currentAction =
                PlannerGetCurrentAction(world.characters[i].planner, gameTime)
        /\ gameTime.day # lastCall.before.time.day =>
            /\ \A i \in 1 .. Len(world.characters) :
                /\ world.characters[i].planner # << >>
                /\ world.characters[i].planner[1].day = gameTime.day
                /\ world.characters[i].planner[1] =
                     PlannerInitializeDailyPlan("getDefaultRoutine",
                                                world.characters[i].occupation, gameTime.day)
                /\ world.characters[i].currentPlan = world.characters[i].planner
            /\ FirstCallOf(lastCall.trace, "World.onDayChanged") > 0
            /\ FirstCallOf(lastCall.trace, "World.onDayChanged")
                 < FirstCallOf(lastCall.trace, "World.onTick")

\* a tick has started day 2, and a later one has put a character on a plan of that day
C2_Witness ==
    /\ lastCall.op = "World.tick" /\ ~lastCall.before.time.isPaused
    /\ gameTime.day = 2
    /\ world.characters[1].planner[1].day = 2
    /\ world.characters[1].currentAction # lastCall.before.world.characters[1].currentAction
    /\ world.characters[1].currentAction \notin {"Standing idle", "Starting the day"}

\* C3: the state serialize returns, loaded by loadState into a World newly built
\* from the same template, is the state of that World: the config id, the time, the
\* characters, the conversations, the environment tree, the diffusion log, the
\* simulation log and the timestamps are those that were saved.
C3_SaveLoadRoundTrips ==
    lastCall.op = "World.loadState" =>
        /\ lastCall.loaded.config.id = lastCall.saved.config.id
        /\ lastCall.loaded.time = lastCall.saved.time
        /\ lastCall.loaded.characters = lastCall.saved.characters
        /\ lastCall.loaded.conversations = lastCall.saved.conversations
        /\ lastCall.loaded.environment = lastCall.saved.environment
        /\ lastCall.loaded.diffusionLog = lastCall.saved.diffusionLog
        /\ lastCall.loaded.simulationLog = lastCall.saved.simulationLog
        /\ lastCall.loaded.createdAt = lastCall.saved.createdAt
        /\ lastCall.loaded.updatedAt = lastCall.saved.updatedAt

\* a handler has completed: it returned or threw, or the promise it returned settled
Completed(promise) == promise.outcome \in {"returned", "threw", "resolved", "rejected"}

\* C7: the promise of emitAsync is never rejected and is fulfilled only when every
\* handler subscribed to the type or to every event has completed; while it is
\* pending the next queued handler can start although earlier handlers are still
\* running or have failed, and a running handler can complete although others failed.
C7_EmitAsyncJoins ==
    lastCall.op = "emitAsync" =>
        /\ HandlersOf(lastCall.promises) = listeners[lastCall.type] \o wildcardListeners
        /\ lastCall.settled # "rejected"
        /\ lastCall.settled = "fulfilled" =>
            \A i \in 1 .. Len(lastCall.promises) : Completed(lastCall.promises[i])
        /\ lastCall.settled = "pending" =>
            \A i \in 1 .. Len(lastCall.promises) :
                /\ (/\ lastCall.promises[i].outcome = "queued"
                    /\ \A j \in 1 .. i - 1 : lastCall.promises[j].outcome # "queued")
                        => ENABLED StartHandler(i)
                /\ (/\ lastCall.promises[i].outcome = "awaiting"
                    /\ \A j \in 1 .. Len(lastCall.promises) :
                            lastCall.promises[j].outcome # "queued")
                        => ENABLED CompleteHandler(i)

\* emitAsync was fulfilled after a handler threw, a later one started while an
\* earlier asynchronous one was still running, and one of them was rejected
C7_Witness ==
    /\ lastCall.op = "emitAsync"
    /\ lastCall.settled = "fulfilled"
    /\ Len(lastCall.promises) = 3
    /\ lastCall.promises[1].outcome = "rejected"
    /\ lastCall.promises[2].outcome = "threw"
    /\ lastCall.promises[3].outcome = "rejected"

----------------------------------------------------------------------------
(* Planner.ts: decomposePlanToDetailed *)

\* the descriptions of the hourly plans of the model, one per branch of
\* getDetailedActivities
DetailDescriptions ==
    {"Work on string theory", "Run laser experiments", "Halo night",
     "Visit the comic book store", "Work shift at Cheesecake Factory",
     "Practice lines for audition", "Wake up and morning routine", "Eat breakfast",
     "Lunch", "Work at Caltech", "Go to bed", "Read a book"}

\* the keywords of getDetailedActivities that the lower-cased description contains
KeywordsIn(description) ==
    CASE description = "Work on string theory"            -> {"string theory", "work"}
      [] description = "Run laser experiments"            -> {"laser"}
      [] description = "Halo night"                       -> {"halo"}
      [] description = "Visit the comic book store"       -> {"comic"}
      [] description = "Work shift at Cheesecake Factory" ->
             {"cheesecake factory", "shift", "work"}
      [] description = "Practice lines for audition"      -> {"audition", "lines"}
      [] description = "Wake up and morning routine"      -> {"wake up", "morning routine"}
      [] description = "Eat breakfast"                    -> {"breakfast"}
      [] description = "Lunch"                            -> {"lunch"}
      [] description = "Work at Caltech"                  -> {"work", "caltech"}
      [] description = "Go to bed"                        -> {"bed"}
      [] OTHER                                            -> {}

\* lower.includes(keyword)
includes(description, keyword) == keyword \in KeywordsIn(description)

getDetailedActivities(planDescription) ==
    IF includes(planDescription, "string theory")
          \/ includes(planDescription, "physics research")
    THEN <<"Review recent physics papers", "Work on equations on whiteboard",
           "Argue about theoretical approaches", "Take a coffee break",
           "Continue working on proofs">>
    ELSE IF includes(planDescription, "laser") \/ includes(planDescription, "experimental")
    THEN <<"Set up experimental apparatus", "Calibrate laser equipment",
           "Run experiments", "Record data", "Analyze results">>
    ELSE IF includes(planDescription, "halo") \/ includes(planDescription, "video game")
    THEN <<"Set up gaming station", "Play online matches",
           "Complain about other players", "Take a snack break",
           "Continue gaming session">>
    ELSE IF includes(planDescription, "comic")
    THEN <<"Browse new arrivals", "Discuss comic storylines",
           "Argue about superhero rankings", "Make purchases",
           "Head home with new comics">>
    ELSE IF includes(planDescription, "cheesecake factory")
          \/ includes(planDescription, "shift")
    THEN <<"Clock in and put on uniform", "Check table assignments",
           "Take customer orders", "Serve food and drinks",
           "Handle difficult customers", "Clean tables">>
    ELSE IF includes(planDescription, "audition") \/ includes(planDescription, "lines")
    THEN <<"Read through script", "Practice emotional delivery", "Work on accents",
           "Record self for review", "Take a break">>
    ELSE IF includes(planDescription, "morning routine")
          \/ includes(planDescription, "wake up")
    THEN <<"Get out of bed", "Brush teeth", "Take a shower", "Get dressed",
           "Check phone for messages">>
    ELSE IF includes(planDescription, "breakfast")
    THEN <<"Prepare breakfast ingredients", "Cook breakfast", "Eat breakfast",
           "Clean up dishes">>
    ELSE IF includes(planDescription, "lunch") \/ includes(planDescription, "dinner")
    THEN <<"Decide what to eat", "Prepare or order food", "Eat the meal", "Clean up">>
    ELSE IF includes(planDescription, "work") \/ includes(planDescription, "caltech")
    THEN <<"Review tasks for the session", "Focus on primary work",
           "Take a short break", "Continue working", "Wrap up current task">>
    ELSE IF includes(planDescription, "bed") \/ includes(planDescription, "sleep")
    THEN <<"Change into sleepwear", "Brush teeth", "Set alarm for tomorrow",
           "Get into bed">>
    ELSE <<"Start " \o ToLowerCase(planDescription),
           "Continue " \o ToLowerCase(planDescription),
           "Finish " \o ToLowerCase(planDescription)>>

\* the forEach of decomposePlanToDetailed, from activity i on
RECURSIVE DetailedLoop(_, _, _, _, _, _, _)
DetailedLoop(plan, activities, i, currentHour, currentMin, remainingDuration, detailedPlans) ==
    IF i > Len(activities) THEN detailedPlans
    ELSE LET duration == Min3(plan.duration \div Len(activities), remainingDuration, 15)
             nextMin == currentMin + duration
         IN  IF duration > 0
             THEN DetailedLoop(plan, activities, i + 1,
                      IF nextMin >= 60 THEN currentHour + 1 ELSE currentHour,
                      IF nextMin >= 60 THEN nextMin - 60 ELSE nextMin,
                      remainingDuration - duration,
                      Append(detailedPlans,
                             createPlan(activities[i], currentHour, currentMin, duration)))
             ELSE DetailedLoop(plan, activities, i + 1, currentHour, currentMin,
                               remainingDuration, detailedPlans)

decomposePlanToDetailed(plan) ==
    DetailedLoop(plan, getDetailedActivities(plan.description), 1,
                 plan.startTime.hour, plan.startTime.minute, plan.duration, << >>)

----------------------------------------------------------------------------
(* decomposePlanToDetailed applied to one hourly plan *)

HourlyDurations == 1 .. 60

HourlyStartHours == {8, 23}

HourlyStartMinutes == {0, 20, 59}

\* the hourly plan handed to decomposePlanToDetailed
DetailedInit ==
    /\ routineGenerator = "default"
    /\ localStorage = NoStorage
    /\ planner = << >>
    /\ query = << >>
    /\ Unwired
    /\ \E description \in DetailDescriptions, hour \in HourlyStartHours,
          minute \in HourlyStartMinutes, duration \in HourlyDurations :
          lastCall = [op |-> "none",
                      plan |-> createPlan(description, hour, minute, duration)]

DecomposePlanToDetailed ==
    /\ lastCall.op = "none"
    /\ lastCall' = [op |-> "decomposePlanToDetailed", plan |-> lastCall.plan,
                    detailedPlans |-> decomposePlanToDetailed(lastCall.plan)]
    /\ UNCHANGED <<planVars, localStorage, memVars, busVars, clockRun>>

DetailedNext == DecomposePlanToDetailed

SpecDetailed == DetailedInit /\ [][DetailedNext]_vars

\* each detailed plan starts where the one before it ends, the first one where the
\* hourly plan starts
RECURSIVE Contiguous(_, _, _)
Contiguous(plans, i, cursor) ==
    \/ i > Len(plans)
    \/ /\ planStartOf(plans[i]) = cursor
       /\ plans[i].duration > 0
       /\ Contiguous(plans, i + 1, cursor + plans[i].duration)

\* C11: the detailed plans of an hourly plan are contiguous and do not overlap, each
\* lasts at most 15 minutes, the first starts where the hourly plan starts and their
\* durations add up to the duration of the hourly plan
C11_DetailedTilesHourly ==
    lastCall.op = "decomposePlanToDetailed" =>
        LET plan == lastCall.plan
            detailed == lastCall.detailedPlans
        IN  /\ Contiguous(detailed, 1, planStartOf(plan))
            /\ \A i \in 1 .. Len(detailed) : detailed[i].duration <= 15
            /\ SumDurations(detailed, 1) = plan.duration

----------------------------------------------------------------------------
(* MemoryStream.ts: scores *)

\* A score is a fraction <<numerator, denominator>> in lowest terms, denominator > 0.
RECURSIVE GCD(_, _)
GCD(a, b) == IF b = 0 THEN a ELSE GCD(b, a % b)

Abs(n) == IF n < 0 THEN 0 - n ELSE n

\* the numbers of JavaScript that are not finite: 0/0 and +-1/0
NaN == <<0, 0>>

Infinity == <<1, 0>>

Frac(n, d) ==
    LET g == GCD(Abs(n), Abs(d))
    IN  IF n = 0 /\ d = 0 THEN NaN
        ELSE IF d < 0 THEN <<(0 - n) \div g, (0 - d) \div g>> ELSE <<n \div g, d \div g>>

Num(n) == <<n, 1>>

Plus(a, b) == Frac(a[1] * b[2] + b[1] * a[2], a[2] * b[2])

Minus(a, b) == Frac(a[1] * b[2] - b[1] * a[2], a[2] * b[2])

Times(a, b) == Frac(a[1] * b[1], a[2] * b[2])

Over(a, b) == Frac(a[1] * b[2], a[2] * b[1])

Less(a, b) == a[1] * b[2] < b[1] * a[2]

\* Math.sqrt of a perfect square
Sqrt(n) == CHOOSE r \in 0 .. n : r * r = n

RECURSIVE Pow(_, _)
\* Math.pow(base, exponent) for a whole exponent
Pow(base, exponent) ==
    IF exponent = 0 THEN Num(1) ELSE Times(base, Pow(base, exponent - 1))

\* a === b for two numbers: NaN equals nothing
StrictEquals(a, b) == a # NaN /\ b # NaN /\ a = b

\* Math.pow(base, exponent) for a base between 0 and 1 and an exponent that is whole,
\* Infinity, -Infinity or NaN
MathPow(base, exponent) ==
    IF exponent = NaN THEN NaN
    ELSE IF exponent[2] = 0 THEN (IF exponent[1] > 0 THEN Num(0) ELSE Infinity)
    ELSE IF exponent[1] < 0 THEN Over(Num(1), Pow(base, 0 - exponent[1]))
    ELSE Pow(base, exponent[1])

REFLECTION_THRESHOLD == 150

RECENCY_DECAY == Frac(995, 1000)

----------------------------------------------------------------------------
(* MemoryStream.ts: the memory contents of the model and what the string operations of
   the source make of them *)

MemoryContents ==
    {"Penny told me about the party", "Standing idle at home today", "I am happy",
     "Walked", "sad love-hate birthday party friend"}

\* the keywords of estimateImportance that the lower-cased content contains
highImportanceKeywordsIn(content) ==
    CASE content = "Penny told me about the party" -> {"party"}
      [] content = "I am happy"                    -> {"happy"}
      [] content = "sad love-hate birthday party friend" ->
             {"love", "hate", "sad", "party", "birthday", "friend"}
      [] OTHER                                     -> {}

lowImportanceKeywordsIn(content) ==
    CASE content = "Standing idle at home today" -> {"standing", "idle"}
      [] content = "Walked"                      -> {"walked"}
      [] OTHER                                   -> {}

\* the keywords of findShareable that the lower-cased content contains
socialKeywordsIn(content) ==
    CASE content = "Penny told me about the party" -> {"told", "party"}
      [] content = "I am happy"                    -> {"happy"}
      [] content = "sad love-hate birthday party friend" -> {"party"}
      [] OTHER                                     -> {}

\* content.toLowerCase().split(/\s+/).filter((w) => w.length > 3)
LongWords(content) ==
    CASE content = "Penny told me about the party" -> <<"penny", "told", "about", "party">>
      [] content = "Standing idle at home today" -> <<"standing", "idle", "home", "today">>
      [] content = "I am happy"                  -> <<"happy">>
      [] content = "Walked"                      -> <<"walked">>
      [] content = "sad love-hate birthday party friend" ->
             <<"love-hate", "birthday", "party", "friend">>
      [] content = "party"                       -> <<"party">>
      [] content = "Penny told about party"      -> <<"penny", "told", "about", "party">>
      [] OTHER                                   -> << >>

Range(seq) == {seq[i] : i \in 1 .. Len(seq)}

\* estimateImportance: 5, plus 1 per high keyword, minus 0.5 per low keyword, rounded
\* by Math.round (halves go up) and clamped to 1..10; computed in halves
estimateImportance(content) ==
    LET halves == 10 + 2 * Cardinality(highImportanceKeywordsIn(content))
                     - Cardinality(lowImportanceKeywordsIn(content))
        rounded == (halves + 1) \div 2
    IN  IF rounded > 10 THEN 10 ELSE IF rounded < 1 THEN 1 ELSE rounded

\* createMemory; importance is options?.importance, << >> when the option is absent,
\* and suffix stands for the random part of the id
createMemory(content, type, importance, dateNow, suffix) ==
    [id |-> "mem-" \o ToString(dateNow) \o "-" \o suffix,
     content |-> content,
     createdAt |-> dateNow,
     lastAccessedAt |-> dateNow,
     importance |-> IF importance # << >> THEN importance[1]
                    ELSE estimateImportance(content),
     type |-> type,
     diffusedTo |-> << >>]

----------------------------------------------------------------------------
(* MemoryStream.ts: the MemoryStream class; st is the stream a method is called on *)

NewMemoryStream(initialMemories) ==
    [memories |-> initialMemories, importanceAccumulator |-> 0, diffusionLog |-> << >>]

add(st, memory) ==
    [st EXCEPT !.memories = Append(@, memory),
               !.importanceAccumulator = @ + memory.importance]

RECURSIVE addManyFrom(_, _, _)
addManyFrom(st, memories, i) ==
    IF i > Len(memories) THEN st ELSE addManyFrom(add(st, memories[i]), memories, i + 1)

addMany(st, memories) == addManyFrom(st, memories, 1)

addNew(st, content, type, importance, dateNow, suffix) ==
    add(st, createMemory(content, type, importance, dateNow, suffix))

getAll(st) == st.memories

\* this.memories.slice(-count); slice(-0) is slice(0), the whole list
getRecent(st, count) ==
    IF count = 0 \/ count >= Len(st.memories) THEN st.memories
    ELSE SubSeq(st.memories, Len(st.memories) - count + 1, Len(st.memories))

\* shouldReflect with a threshold that has to be exceeded
shouldReflectAbove(st) == st.importanceAccumulator > REFLECTION_THRESHOLD

shouldReflect(st) == st.importanceAccumulator >= REFLECTION_THRESHOLD

resetImportanceAccumulator(st) == [st EXCEPT !.importanceAccumulator = 0]

\* calculateRecency without decay for a memory of high importance
calculateRecencyOfMemory(memory, gameHoursPassed) ==
    IF memory.importance > 5 THEN Num(1) ELSE MathPow(RECENCY_DECAY, gameHoursPassed)

calculateRecency(memory, gameHoursPassed) == MathPow(RECENCY_DECAY, gameHoursPassed)

calculateRelevance(memory, queryText) ==
    LET memoryWords == Range(LongWords(memory.content))
        queryWords == Range(LongWords(queryText))
    IN  IF memoryWords = {} \/ queryWords = {} THEN Num(0)
        ELSE Over(Num(Cardinality(queryWords \cap memoryWords)),
                  Num(Sqrt(Cardinality(memoryWords) * Cardinality(queryWords))))

\* the lower and the higher of two scores, the second one if they are equal
Lower(a, b) == IF Less(a, b) THEN a ELSE b

Higher(a, b) == IF Less(b, a) THEN a ELSE b

RECURSIVE MinOf(_, _)
\* Math.min(...scores), from position i on
MinOf(scores, i) ==
    IF i = Len(scores) THEN scores[i] ELSE Lower(MinOf(scores, i + 1), scores[i])

RECURSIVE MaxOf(_, _)
\* Math.max(...scores), from position i on
MaxOf(scores, i) ==
    IF i = Len(scores) THEN scores[i] ELSE Higher(MaxOf(scores, i + 1), scores[i])

\* an array that map has built: the same sequence, every element of it computed
Mapped(array) == SubSeq(array, 1, Len(array))

\* scores.map(s => (s - min) / (max - min)), or all 1 when max === min
normalizeBetween(scores, min, max) ==
    IF StrictEquals(max, min) THEN [i \in 1 .. Len(scores) |-> Num(1)]
    ELSE Mapped([i \in 1 .. Len(scores) |-> Over(Minus(scores[i], min), Minus(max, min))])

normalizeScores(scores) == normalizeBetween(scores, MinOf(scores, 1), MaxOf(scores, 1))

\* the weighted sum of the three normalised scores of every memory
weightedSum(count, weights, normRecency, normImportance, normRelevance) ==
    Mapped([i \in 1 .. count |->
               Plus(Plus(Times(Num(weights.recency), normRecency[i]),
                         Times(Num(weights.importance), normImportance[i])),
                    Times(Num(weights.relevance), normRelevance[i]))])

\* the final score of every memory of the stream
finalScores(st, queryText, gameHoursPassed, weights) ==
    weightedSum(Len(st.memories), weights,
        normalizeScores(Mapped([i \in 1 .. Len(st.memories) |->
                                   calculateRecency(st.memories[i], gameHoursPassed)])),
        normalizeScores(Mapped([i \in 1 .. Len(st.memories) |->
                                   Frac(st.memories[i].importance, 10)])),
        normalizeScores(Mapped([i \in 1 .. Len(st.memories) |->
                                   calculateRelevance(st.memories[i], queryText)])))

\* where a sort that puts equal scores in reverse order of insertion places item
SortedInsertTiesFirst(sorted, item) ==
    LET before == {k \in 1 .. Len(sorted) : Less(item.score, sorted[k].score)}
        at == Cardinality(before)
    IN  SubSeq(sorted, 1, at) \o <<item>> \o SubSeq(sorted, at + 1, Len(sorted))

\* where Array.prototype.sort, which is stable, places item among the items that
\* precede it in the array: after every item whose score is not lower
SortedInsert(sorted, item) ==
    LET before == {k \in 1 .. Len(sorted) : ~Less(sorted[k].score, item.score)}
        at == Cardinality(before)
    IN  SubSeq(sorted, 1, at) \o <<item>> \o SubSeq(sorted, at + 1, Len(sorted))

RECURSIVE SortByScore(_, _, _)
\* indexed.sort((a, b) => b.score - a.score)
SortByScore(indexed, i, sorted) ==
    IF i > Len(indexed) THEN sorted
    ELSE SortByScore(indexed, i + 1, SortedInsert(sorted, indexed[i]))

\* slice(0, topK)
SliceTo(seq, topK) == SubSeq(seq, 1, Min2(topK, Len(seq)))

\* memories.map((memory, i) => ({ memory, score })); index is the position in
\* this.memories of the memory object an item refers to
Indexed(scores) ==
    Mapped([i \in 1 .. Len(scores) |-> [index |-> i, score |-> scores[i]]])

\* this.memories after the items of `top` have been given lastAccessedAt = now
Accessed(st, top, dateNow) ==
    [i \in 1 .. Len(st.memories) |->
        IF \E k \in 1 .. Len(top) : top[k].index = i
        THEN [st.memories[i] EXCEPT !.lastAccessedAt = dateNow]
        ELSE st.memories[i]]

\* what retrieve leaves and returns: the stream and the memory objects of `top`
Retrieved(st, top, memories) ==
    [stream |-> [st EXCEPT !.memories = memories],
     results |-> [k \in 1 .. Len(top) |-> memories[top[k].index]]]

\* this.memories sorted itself, the first topK given lastAccessedAt = now
AccessedInPlace(st, sorted, topK, dateNow) ==
    [k \in 1 .. Len(sorted) |->
        IF k <= topK THEN [st.memories[sorted[k].index] EXCEPT !.lastAccessedAt = dateNow]
        ELSE st.memories[sorted[k].index]]

RetrievedInPlace(st, memories, topK) ==
    [stream |-> [st EXCEPT !.memories = memories], results |-> SliceTo(memories, topK)]

\* the first topK of the memories by final score
Top(st, queryText, gameHoursPassed, weights, topK) ==
    SliceTo(SortByScore(Indexed(finalScores(st, queryText, gameHoursPassed, weights)),
                        1, << >>),
            topK)

\* what retrieve does with the top items once they are known
RetrieveTop(st, top, dateNow) == Retrieved(st, top, Accessed(st, top, dateNow))

\* retrieve with a sort of this.memories itself instead of a copy of it
retrieveSortingInPlace(st, queryText, gameHoursPassed, weights, topK, dateNow) ==
    IF Len(st.memories) = 0 THEN [stream |-> st, results |-> << >>]
    ELSE RetrievedInPlace(
             st,
             AccessedInPlace(
                 st,
                 SortByScore(Indexed(finalScores(st, queryText, gameHoursPassed, weights)),
                             1, << >>),
                 topK, dateNow),
             topK)

\* retrieve: the stream after the call and the memories returned
retrieve(st, queryText, gameHoursPassed, weights, topK, dateNow) ==
    IF Len(st.memories) = 0 THEN [stream |-> st, results |-> << >>]
    ELSE RetrieveTop(st, Top(st, queryText, gameHoursPassed, weights, topK), dateNow)

----------------------------------------------------------------------------
(* MemoryStream.retrieve on a stream constructed from up to MaxMemories memories *)

\* what the memories of the model are created from: content and importance option
MemoryPool ==
    {[content |-> "Penny told me about the party", importance |-> << >>],
     [content |-> "Standing idle at home today", importance |-> << >>],
     [content |-> "I am happy", importance |-> << >>],
     [content |-> "Walked", importance |-> <<8>>]}

RECURSIVE SeqsUpTo(_, _)
\* the sequences of at most maxLen members of set
SeqsUpTo(set, maxLen) ==
    IF maxLen = 0 THEN {<< >>}
    ELSE LET shorter == SeqsUpTo(set, maxLen - 1)
         IN  shorter \cup {Append(seq, x) : seq \in {q \in shorter : Len(q) = maxLen - 1},
                                            x \in set}

\* the memories createMemory makes of the pool entries, at time createdAt
CreatedFrom(entries, createdAt) ==
    [i \in 1 .. Len(entries) |->
        createMemory(entries[i].content, "observation", entries[i].importance,
                     createdAt, ToString(i))]

Queries == {"", "party", "Penny told about party"}

Weights ==
    {[recency |-> 1, importance |-> 1, relevance |-> 1],
     [recency |-> 0, importance |-> 1, relevance |-> 0],
     [recency |-> 1, importance |-> 0, relevance |-> 2],
     [recency |-> 2, importance |-> 1, relevance |-> 1]}

HoursPassed == {Num(0), Num(2)}

RetrieveInit ==
    /\ routineGenerator = "default"
    /\ localStorage = NoStorage
    /\ planner = << >>
    /\ query = << >>
    /\ listeners = [type \in EventTypes |-> << >>]
    /\ wildcardListeners = << >>
    /\ eventLog = << >>
    /\ throwers = {}
    /\ gameTime = DEFAULT_TIME
    /\ world = NoWorld
    /\ now = 1
    /\ clockRun = NoRun
    /\ reflectedAt = 0
    /\ \E entries \in SeqsUpTo(MemoryPool, MaxMemories) :
          memoryStream = NewMemoryStream(CreatedFrom(entries, 0))
    /\ \E queryText \in Queries, weights \in Weights, topK \in 0 .. MaxTopK,
          gameHoursPassed \in HoursPassed :
          lastCall = [op |-> "none", queryText |-> queryText, weights |-> weights,
                      topK |-> topK, gameHoursPassed |-> gameHoursPassed]

Retrieve ==
    /\ lastCall.op = "none"
    /\ LET returned == retrieve(memoryStream, lastCall.queryText,
                                lastCall.gameHoursPassed, lastCall.weights,
                                lastCall.topK, now)
       IN  /\ memoryStream' = returned.stream
           /\ lastCall' = [lastCall EXCEPT !.op = "retrieve"] @@
                          [before |-> memoryStream, results |-> returned.results]
    /\ UNCHANGED <<planVars, localStorage, busVars, clockRun, reflectedAt>>

RetrieveNext == Retrieve

SpecRetrieve == RetrieveInit /\ [][RetrieveNext]_vars

\* memory i of the stream ranks before memory j: a higher score, or the same score and
\* inserted earlier
RanksBefore(scores, i, j) ==
    \/ Less(scores[j], scores[i])
    \/ scores[i] = scores[j] /\ i < j

\* the position in the stream of the memory of rank k
Ranked(scores, k) ==
    CHOOSE i \in 1 .. Len(scores) :
        Cardinality({j \in 1 .. Len(scores) : RanksBefore(scores, j, i)}) = k - 1

EqualWeights == [recency |-> 1, importance |-> 1, relevance |-> 1]

\* C12: retrieve returns the min(topK, length) memories that rank first by weighted sum
\* of normalised scores, highest first, equal scores in insertion order; with equal
\* weights and topK = 1, of two memories of equal relevance it returns the one of higher
\* importance, the first inserted if the importance is equal too
C12_RetrieveRanks ==
    lastCall.op = "retrieve" =>
        LET before == lastCall.before.memories
            results == lastCall.results
            scores == finalScores(lastCall.before, lastCall.queryText,
                                  lastCall.gameHoursPassed, lastCall.weights)
        IN  /\ Len(results) = Min2(lastCall.topK, Len(before))
            /\ \A k \in 1 .. Len(results) : results[k].id = before[Ranked(scores, k)].id
            /\ ( /\ Len(before) = 2
                 /\ lastCall.weights = EqualWeights
                 /\ lastCall.topK = 1
                 /\ calculateRelevance(before[1], lastCall.queryText)
                        = calculateRelevance(before[2], lastCall.queryText) )
               => results[1].id = IF before[2].importance > before[1].importance
                                  THEN before[2].id ELSE before[1].id

\* a retrieve over three memories that returns two of them, the third inserted first and
\* two memories of one score in between them
C12_Witness ==
    /\ lastCall.op = "retrieve"
    /\ Len(lastCall.before.memories) = 3
    /\ Len(lastCall.results) = 2
    /\ lastCall.results[1].id = lastCall.before.memories[3].id
    /\ lastCall.results[2].id = lastCall.before.memories[1].id
    /\ LET scores == finalScores(lastCall.before, lastCall.queryText,
                                 lastCall.gameHoursPassed, lastCall.weights)
       IN  scores[1] = scores[2]

----------------------------------------------------------------------------
(* MemoryStream.add and resetImportanceAccumulator, up to MaxAdded memories *)

\* the importance of the memories a run adds, in turn and over again
ImportanceScripts == {<<10>>, <<10, 9>>, <<7, 10, 10>>, <<1>>}

\* a stream as its constructor leaves it
StreamInit(initialMemories) ==
    /\ routineGenerator = "default"
    /\ localStorage = NoStorage
    /\ planner = << >>
    /\ query = << >>
    /\ listeners = [type \in EventTypes |-> << >>]
    /\ wildcardListeners = << >>
    /\ eventLog = << >>
    /\ throwers = {}
    /\ gameTime = DEFAULT_TIME
    /\ world = NoWorld
    /\ now = 1
    /\ clockRun = NoRun
    /\ memoryStream = NewMemoryStream(initialMemories)
    /\ reflectedAt = Len(initialMemories)

ReflectInit ==
    /\ \E entries \in SeqsUpTo(MemoryPool, 1) : StreamInit(CreatedFrom(entries, 0))
    /\ \E importances \in ImportanceScripts :
          lastCall = [op |-> "none", importances |-> importances]

ReflectAdd ==
    /\ Len(memoryStream.memories) < MaxAdded
    /\ LET turn == (Len(memoryStream.memories) % Len(lastCall.importances)) + 1
           memory == createMemory("Walked", "observation",
                                  <<lastCall.importances[turn]>>, now,
                                  ToString(Len(memoryStream.memories)))
       IN  memoryStream' = add(memoryStream, memory)
    /\ lastCall' = [lastCall EXCEPT !.op = "add"]
    /\ UNCHANGED <<planVars, localStorage, busVars, clockRun, reflectedAt>>

ResetImportanceAccumulator ==
    /\ memoryStream' = resetImportanceAccumulator(memoryStream)
    /\ reflectedAt' = Len(memoryStream.memories)
    /\ lastCall' = [lastCall EXCEPT !.op = "resetImportanceAccumulator"]
    /\ UNCHANGED <<planVars, localStorage, busVars, clockRun>>

ReflectNext == ReflectAdd \/ ResetImportanceAccumulator

SpecReflect == ReflectInit /\ [][ReflectNext]_vars

RECURSIVE SumImportance(_, _)
\* the importance of the memories from position i on, added up
SumImportance(memories, i) ==
    IF i > Len(memories) THEN 0
    ELSE memories[i].importance + SumImportance(memories, i + 1)

----------------------------------------------------------------------------
(* MemoryStream.ts: findShareable, knowsInformation and recordDiffusion *)

\* m.diffusedTo?.includes(targetCharacterId)
diffusedToIncludes(memory, targetCharacterId) ==
    \E k \in 1 .. Len(memory.diffusedTo) : memory.diffusedTo[k] = targetCharacterId

\* the filter of findShareable that lets through every memory of importance 5 or more
\* that was not diffused to the target
isShareableFrom5(memory, targetCharacterId) ==
    IF memory.importance < 5 THEN FALSE
    ELSE IF diffusedToIncludes(memory, targetCharacterId) THEN FALSE
    ELSE TRUE

\* the filter of findShareable
isShareable(memory, targetCharacterId) ==
    IF memory.importance < 5 THEN FALSE
    ELSE IF diffusedToIncludes(memory, targetCharacterId) THEN FALSE
    ELSE socialKeywordsIn(memory.content) # {} \/ memory.importance >= 7

RECURSIVE Filter(_, _, _, _)
\* this.memories.filter(...): the positions of the memories that pass, in order
Filter(memories, targetCharacterId, i, kept) ==
    IF i > Len(memories) THEN kept
    ELSE Filter(memories, targetCharacterId, i + 1,
                IF isShareable(memories[i], targetCharacterId)
                THEN Append(kept, [index |-> i, score |-> Num(memories[i].importance)])
                ELSE kept)

\* findShareable: .filter(...).sort((a, b) => b.importance - a.importance).slice(0, topK)
findShareable(st, targetCharacterId, topK) ==
    LET top == SliceTo(SortByScore(Filter(st.memories, targetCharacterId, 1, << >>),
                                   1, << >>), topK)
    IN  [k \in 1 .. Len(top) |-> st.memories[top[k].index]]

\* memContent.includes(lowerContent.slice(0, 30)) for the contents of the model, none
\* of which holds another one but for the word "party"
includesStartOf(memContent, informationContent) ==
    \/ memContent = informationContent
    \/ informationContent = ""
    \/ /\ informationContent = "party"
       /\ memContent \in {"Penny told me about the party",
                          "sad love-hate birthday party friend"}

knowsInformation(st, informationContent) ==
    \E i \in 1 .. Len(st.memories) :
        LET contentWords == Range(LongWords(informationContent))
            memWords == LongWords(st.memories[i].content)
            overlap == Cardinality({k \in 1 .. Len(memWords) : memWords[k] \in contentWords})
        IN  overlap >= 3 \/ includesStartOf(st.memories[i].content, informationContent)

\* recordDiffusion that logs nothing for a target the memory was diffused to before
recordDiffusionOnce(st, i, sourceCharacterId, targetCharacterId, context, dateNow, suffix) ==
    LET event == [id |-> "diff-" \o ToString(dateNow) \o "-" \o suffix,
                  originalMemoryId |-> st.memories[i].id,
                  originalContent |-> st.memories[i].content,
                  sourceCharacterId |-> sourceCharacterId,
                  targetCharacterId |-> targetCharacterId,
                  timestamp |-> dateNow,
                  context |-> context]
    IN  IF targetCharacterId \in Range(st.memories[i].diffusedTo) THEN st
        ELSE [st EXCEPT !.diffusionLog = Append(@, event),
                        !.memories[i].diffusedTo = Append(@, targetCharacterId)]

\* recordDiffusion of the memory at position i of the stream: the event is logged and
\* the target pushed to the memory's diffusedTo
recordDiffusion(st, i, sourceCharacterId, targetCharacterId, context, dateNow, suffix) ==
    LET event == [id |-> "diff-" \o ToString(dateNow) \o "-" \o suffix,
                  originalMemoryId |-> st.memories[i].id,
                  originalContent |-> st.memories[i].content,
                  sourceCharacterId |-> sourceCharacterId,
                  targetCharacterId |-> targetCharacterId,
                  timestamp |-> dateNow,
                  context |-> context]
    IN  [st EXCEPT !.diffusionLog = Append(@, event),
                   !.memories[i].diffusedTo = Append(@, targetCharacterId)]

----------------------------------------------------------------------------
(* MemoryStream.recordDiffusion, up to MaxDiffusions calls on a stream of one or two
   memories *)

DiffusionTargets == {"penny", "leonard", "howard"}

DiffuseInit ==
    /\ \E entries \in SeqsUpTo(MemoryPool, 2) \ {<< >>} :
          StreamInit(CreatedFrom(entries, 0))
    /\ lastCall = NoCall

RecordDiffusion(i, targetCharacterId) ==
    /\ Len(memoryStream.diffusionLog) < MaxDiffusions
    /\ memoryStream' = recordDiffusion(memoryStream, i, "sheldon", targetCharacterId,
                                       "conversation", now,
                                       ToString(Len(memoryStream.diffusionLog)))
    /\ lastCall' = [op |-> "recordDiffusion", originalMemory |-> memoryStream.memories[i],
                    targetCharacterId |-> targetCharacterId,
                    calls |-> IF lastCall.op = "none" THEN 1 ELSE lastCall.calls + 1]
    /\ UNCHANGED <<planVars, localStorage, busVars, clockRun, reflectedAt>>

DiffuseNext ==
    \E i \in 1 .. Len(memoryStream.memories), targetCharacterId \in DiffusionTargets :
        RecordDiffusion(i, targetCharacterId)

SpecDiffuse == DiffuseInit /\ [][DiffuseNext]_vars

\* the targets the diffusion log records for the memory
RecordedTargets(st, memory) ==
    {st.diffusionLog[k].targetCharacterId :
        k \in {n \in 1 .. Len(st.diffusionLog) :
                  st.diffusionLog[n].originalMemoryId = memory.id}}

\* C14: after any recordDiffusion calls, the diffusedTo of a memory holds every target
\* recorded for it and none twice
C14_DiffusedToHasNoDuplicates ==
    \A i \in 1 .. Len(memoryStream.memories) :
        LET memory == memoryStream.memories[i]
        IN  /\ Range(memory.diffusedTo) = RecordedTargets(memoryStream, memory)
            /\ Len(memory.diffusedTo) = Cardinality(Range(memory.diffusedTo))

\* C32: every recordDiffusion call appends one entry to the diffusion log that
\* names the memory, the source, the target and the context, also when the
\* memory was diffused to the same target before; the entries logged before
\* stay what they were, and the log is as long as the calls are many
C32_DiffusionLogCountsCalls ==
    /\ [](Len(memoryStream.diffusionLog)
             = IF lastCall.op = "none" THEN 0 ELSE lastCall.calls)
    /\ [][lastCall'.op = "recordDiffusion" /\ lastCall' # lastCall =>
            /\ Len(memoryStream'.diffusionLog) = Len(memoryStream.diffusionLog) + 1
            /\ SubSeq(memoryStream'.diffusionLog, 1, Len(memoryStream.diffusionLog))
                  = memoryStream.diffusionLog
            /\ LET event == memoryStream'.diffusionLog[Len(memoryStream'.diffusionLog)]
               IN  /\ event.originalMemoryId = lastCall'.originalMemory.id
                   /\ event.originalContent = lastCall'.originalMemory.content
                   /\ event.sourceCharacterId = "sheldon"
                   /\ event.targetCharacterId = lastCall'.targetCharacterId
                   /\ event.context = "conversation"]_vars

\* the log holds two entries for the same memory and target
C32_Witness ==
    \E j, k \in 1 .. Len(memoryStream.diffusionLog) :
        /\ j < k
        /\ memoryStream.diffusionLog[j].originalMemoryId
              = memoryStream.diffusionLog[k].originalMemoryId
        /\ memoryStream.diffusionLog[j].targetCharacterId
              = memoryStream.diffusionLog[k].targetCharacterId
        /\ lastCall.op = "recordDiffusion" /\ lastCall.calls = k

----------------------------------------------------------------------------
(* MemoryStream.findShareable on a stream of up to MaxMemories memories, some of them
   diffused up to MaxDiffusions times in between *)

\* what the memories of a stream that gossips are created from; diffusedTo is what
\* the memory was loaded with
SharePool ==
    {[content |-> "Penny told me about the party", importance |-> << >>,
      diffusedTo |-> <<"leonard">>],
     [content |-> "I am happy", importance |-> <<3>>, diffusedTo |-> << >>],
     [content |-> "Walked", importance |-> << >>, diffusedTo |-> << >>],
     [content |-> "Walked", importance |-> <<8>>, diffusedTo |-> << >>]}

\* the memories of a saved stream: created, then diffused to entries[i].diffusedTo
LoadedFrom(entries, createdAt) ==
    [i \in 1 .. Len(entries) |->
        [CreatedFrom(entries, createdAt)[i] EXCEPT !.diffusedTo = entries[i].diffusedTo]]

ShareTargets == {"penny"}

ShareInit ==
    /\ \E entries \in SeqsUpTo(SharePool, MaxMemories) :
          StreamInit(LoadedFrom(entries, 0))
    /\ \E targetCharacterId \in ShareTargets, topK \in 0 .. MaxTopK :
          lastCall = [op |-> "none", targetCharacterId |-> targetCharacterId,
                      topK |-> topK, results |-> << >>]

FindShareable ==
    /\ lastCall' = [lastCall EXCEPT
                       !.op = "findShareable",
                       !.results = findShareable(memoryStream, lastCall.targetCharacterId,
                                                 lastCall.topK)]
    /\ UNCHANGED <<planVars, localStorage, busVars, clockRun, memVars>>

\* the memory at position i is told to the target and the diffusion recorded
RecordShared(i) ==
    /\ Len(memoryStream.diffusionLog) < MaxDiffusions
    /\ ~diffusedToIncludes(memoryStream.memories[i], lastCall.targetCharacterId)
    /\ memoryStream' = recordDiffusion(memoryStream, i, "sheldon",
                                       lastCall.targetCharacterId, "conversation", now,
                                       ToString(Len(memoryStream.diffusionLog)))
    /\ lastCall' = [lastCall EXCEPT !.op = "recordDiffusion", !.results = << >>]
    /\ UNCHANGED <<planVars, localStorage, busVars, clockRun, reflectedAt>>

ShareNext ==
    \/ FindShareable
    \/ \E i \in 1 .. Len(memoryStream.memories) : RecordShared(i)

SpecShare == ShareInit /\ [][ShareNext]_vars

\* results are, highest importance first and cut to topK, the memories of the stream
\* that are Eligible
TopByImportance(results, memories, topK, Eligible(_)) ==
    LET eligible == {i \in 1 .. Len(memories) : Eligible(memories[i])}
        returned == {i \in 1 .. Len(memories) :
                        \E k \in 1 .. Len(results) : results[k].id = memories[i].id}
    IN  /\ returned \subseteq eligible
        /\ Len(results) = Min2(topK, Cardinality(eligible))
        /\ Cardinality(returned) = Len(results)
        /\ \A k \in 1 .. Len(results) - 1 :
               results[k].importance >= results[k + 1].importance
        /\ \A i \in eligible \ returned, k \in 1 .. Len(results) :
               memories[i].importance <= results[k].importance

\* what the claim says findShareable selects
ClaimedShareable(memory) ==
    /\ ~diffusedToIncludes(memory, lastCall.targetCharacterId)
    /\ memory.importance >= 5 \/ socialKeywordsIn(memory.content) # {}

\* what findShareable selects
GossipWorthy(memory) ==
    /\ ~diffusedToIncludes(memory, lastCall.targetCharacterId)
    /\ memory.importance >= 5
    /\ memory.importance >= 7 \/ socialKeywordsIn(memory.content) # {}

\* C15 as claimed: findShareable returns, by descending importance and cut to topK,
\* exactly the memories not yet diffused to the target that have importance at least 5
\* or a social keyword
C15_ShareableAsClaimed ==
    lastCall.op = "findShareable" =>
        TopByImportance(lastCall.results, memoryStream.memories, lastCall.topK,
                        ClaimedShareable)

\* C15 amended: findShareable returns, by descending importance and cut to topK, exactly
\* the memories not yet diffused to the target that have importance at least 5 and
\* either a social keyword or importance at least 7; a memory recorded as diffused to
\* the target is not returned for it again
C15_ShareableGossip ==
    lastCall.op = "findShareable" =>
        /\ TopByImportance(lastCall.results, memoryStream.memories, lastCall.topK,
                           GossipWorthy)
        /\ \A k \in 1 .. Len(lastCall.results), n \in 1 .. Len(memoryStream.diffusionLog) :
               memoryStream.diffusionLog[n].targetCharacterId = lastCall.targetCharacterId
                   => memoryStream.diffusionLog[n].originalMemoryId # lastCall.results[k].id

\* findShareable after a memory it would return was diffused to the target: another
\* memory is returned, and one of importance 5 without a social keyword is passed over
C15_Witness ==
    /\ lastCall.op = "findShareable"
    /\ Len(lastCall.results) = 1
    /\ lastCall.topK > 1
    /\ \E i \in 1 .. Len(memoryStream.memories) :
          /\ memoryStream.memories[i].importance >= 7
          /\ diffusedToIncludes(memoryStream.memories[i], lastCall.targetCharacterId)
    /\ \E i \in 1 .. Len(memoryStream.memories) :
          /\ memoryStream.memories[i].importance = 5
          /\ socialKeywordsIn(memoryStream.memories[i].content) = {}

----------------------------------------------------------------------------
(* A MemoryStream of up to MaxMemories memories under all of its operations *)

\* what the memories are created from: estimated importance, and importance given
StreamPool ==
    {[content |-> "sad love-hate birthday party friend", importance |-> << >>],
     [content |-> "Walked", importance |-> <<12>>],
     [content |-> "I am happy", importance |-> <<0>>]}

\* the memory a pool entry makes on a stream that holds `held` memories
Created(entry, held) ==
    createMemory(entry.content, "observation", entry.importance, now, ToString(held + 1))

FullInit ==
    /\ \E entries \in SeqsUpTo(StreamPool, 1) : StreamInit(CreatedFrom(entries, 0))
    /\ lastCall = NoCall

StreamAdd(entry) ==
    /\ Len(memoryStream.memories) < MaxMemories
    /\ memoryStream' = add(memoryStream, Created(entry, Len(memoryStream.memories)))
    /\ lastCall' = NoCall
    /\ UNCHANGED <<planVars, localStorage, busVars, clockRun, reflectedAt>>

StreamAddMany(first, second) ==
    /\ Len(memoryStream.memories) + 1 < MaxMemories
    /\ memoryStream' = addMany(memoryStream,
                               <<Created(first, Len(memoryStream.memories)),
                                 Created(second, Len(memoryStream.memories) + 1)>>)
    /\ lastCall' = NoCall
    /\ UNCHANGED <<planVars, localStorage, busVars, clockRun, reflectedAt>>

StreamAddNew(entry) ==
    /\ Len(memoryStream.memories) < MaxMemories
    /\ memoryStream' = addNew(memoryStream, entry.content, "observation",
                              entry.importance, now,
                              ToString(Len(memoryStream.memories) + 1))
    /\ lastCall' = NoCall
    /\ UNCHANGED <<planVars, localStorage, busVars, clockRun, reflectedAt>>

StreamRetrieve ==
    \E returned \in {retrieve(memoryStream, "party", Num(2), EqualWeights, 1, now)} :
        /\ memoryStream' = returned.stream
        /\ lastCall' = [op |-> "retrieve", results |-> returned.results]
        /\ UNCHANGED <<planVars, localStorage, busVars, clockRun, reflectedAt>>

StreamFindShareable ==
    /\ lastCall' = [op |-> "findShareable",
                    results |-> findShareable(memoryStream, "penny", 3)]
    /\ UNCHANGED <<planVars, localStorage, busVars, clockRun, memVars>>

StreamKnowsInformation ==
    /\ lastCall' = [op |-> "knowsInformation",
                    results |-> knowsInformation(memoryStream, "party")]
    /\ UNCHANGED <<planVars, localStorage, busVars, clockRun, memVars>>

StreamRecordDiffusion(i) ==
    /\ Len(memoryStream.diffusionLog) < MaxDiffusions
    /\ ~diffusedToIncludes(memoryStream.memories[i], "penny")
    /\ memoryStream' = recordDiffusion(memoryStream, i, "sheldon", "penny",
                                       "conversation", now,
                                       ToString(Len(memoryStream.diffusionLog)))
    /\ lastCall' = NoCall
    /\ UNCHANGED <<planVars, localStorage, busVars, clockRun, reflectedAt>>

StreamReset ==
    /\ memoryStream' = resetImportanceAccumulator(memoryStream)
    /\ reflectedAt' = Len(memoryStream.memories)
    /\ lastCall' = NoCall
    /\ UNCHANGED <<planVars, localStorage, busVars, clockRun>>

StreamGetAll ==
    /\ lastCall' = [op |-> "getAll", results |-> getAll(memoryStream)]
    /\ UNCHANGED <<planVars, localStorage, busVars, clockRun, memVars>>

StreamGetRecent(count) ==
    /\ lastCall' = [op |-> "getRecent", results |-> getRecent(memoryStream, count)]
    /\ UNCHANGED <<planVars, localStorage, busVars, clockRun, memVars>>

FullNext ==
    \/ \E entry \in StreamPool : StreamAdd(entry) \/ StreamAddNew(entry)
    \/ \E first, second \in StreamPool : StreamAddMany(first, second)
    \/ StreamRetrieve
    \/ StreamFindShareable
    \/ StreamKnowsInformation
    \/ \E i \in 1 .. Len(memoryStream.memories) : StreamRecordDiffusion(i)
    \/ StreamReset
    \/ StreamGetAll
    \/ \E count \in 1 .. 2 : StreamGetRecent(count)

SpecStream == FullInit /\ [][FullNext]_vars

\* C16: every memory of a MemoryStream has an importance from 1 to 10
C16_ImportanceWithin1To10 ==
    \A i \in 1 .. Len(memoryStream.memories) :
        memoryStream.memories[i].importance \in 1 .. 10

\* the ids of what getAll() returns
IdsOf(st) == [i \in 1 .. Len(getAll(st)) |-> getAll(st)[i].id]

IsPrefix(short, long) ==
    Len(short) <= Len(long) /\ short = SubSeq(long, 1, Len(short))

\* C17: over every operation of a MemoryStream, what getAll() returned before is a
\* prefix of what it returns after: no memory is removed or moved
C17_AppendOnly == [][IsPrefix(IdsOf(memoryStream), IdsOf(memoryStream'))]_vars

\* a retrieve over three memories has returned the last one, and the stream has been
\* diffused from and reset
C17_Witness ==
    /\ lastCall.op = "retrieve"
    /\ Len(memoryStream.memories) = 3
    /\ lastCall.results[1].id = memoryStream.memories[3].id
    /\ Len(memoryStream.diffusionLog) > 0
    /\ reflectedAt > 0

----------------------------------------------------------------------------
(* GameMap.ts; a position is [x, y], and stands for its key `${x},${y}` too *)

\* GameMap.createEmpty: tiles[y][x], rows and columns counted from 0
createEmpty(width, height, defaultTile) ==
    [width |-> width, height |-> height,
     tiles |-> [y \in 0 .. height - 1 |-> [x \in 0 .. width - 1 |-> defaultTile]]]

getTile(map, x, y) ==
    IF x < 0 \/ x >= map.width \/ y < 0 \/ y >= map.height THEN << >>
    ELSE <<map.tiles[y][x]>>

setTile(map, x, y, type) ==
    IF x < 0 \/ x >= map.width \/ y < 0 \/ y >= map.height THEN map
    ELSE [map EXCEPT !.tiles[y][x] = type]

isWalkable(map, x, y) ==
    LET tile == getTile(map, x, y)
    IN  IF tile = << >> THEN FALSE
        ELSE tile[1] \in {"grass", "path", "floor", "door"}

Max2(a, b) == IF a >= b THEN a ELSE b

getNewPosition(map, position, direction) ==
    CASE direction = "up"    -> [position EXCEPT !.y = Max2(0, @ - 1)]
      [] direction = "down"  -> [position EXCEPT !.y = Min2(map.height - 1, @ + 1)]
      [] direction = "left"  -> [position EXCEPT !.x = Max2(0, @ - 1)]
      [] direction = "right" -> [position EXCEPT !.x = Min2(map.width - 1, @ + 1)]

heuristic(a, b) == Abs(a.x - b.x) + Abs(a.y - b.y)

getDistance(from, to) == Abs(to.x - from.x) + Abs(to.y - from.y)

directions == <<"up", "down", "left", "right">>

\* where a sort that puts the highest f first places node
InsertByFDescending(sorted, node) ==
    LET before == {k \in 1 .. Len(sorted) : sorted[k].f >= node.f}
        at == Cardinality(before)
    IN  SubSeq(sorted, 1, at) \o <<node>> \o SubSeq(sorted, at + 1, Len(sorted))

\* where openSet.sort((a, b) => a.f - b.f), which is stable, places node among the
\* nodes that precede it in the array
InsertByF(sorted, node) ==
    LET before == {k \in 1 .. Len(sorted) : sorted[k].f <= node.f}
        at == Cardinality(before)
    IN  SubSeq(sorted, 1, at) \o <<node>> \o SubSeq(sorted, at + 1, Len(sorted))

RECURSIVE SortByF(_, _, _)
SortByF(openSet, i, sorted) ==
    IF i > Len(openSet) THEN sorted
    ELSE SortByF(openSet, i + 1, InsertByF(sorted, openSet[i]))

\* openSet.findIndex(...): 0 when there is none
findIndex(openSet, position) ==
    IF \E k \in 1 .. Len(openSet) : openSet[k].position = position
    THEN CHOOSE k \in 1 .. Len(openSet) :
             /\ openSet[k].position = position
             /\ \A n \in 1 .. k - 1 : openSet[n].position # position
    ELSE 0

\* the body of the loop without the test of the occupied positions
VisitNeighborOccupied(map, to, occupied, current, neighbor, search) ==
    IF neighbor \in search.closedSet THEN search
    ELSE IF ~isWalkable(map, neighbor.x, neighbor.y) THEN search
    ELSE LET g == current.g + 1
             f == g + heuristic(neighbor, to)
             existingIndex == findIndex(search.openSet, neighbor)
         IN  IF existingIndex = 0
             THEN [search EXCEPT
                      !.cameFrom = (neighbor :> current.position) @@ @,
                      !.openSet = Append(@, [position |-> neighbor, g |-> g, f |-> f,
                                             parent |-> <<current.position>>])]
             ELSE IF g < search.openSet[existingIndex].g
             THEN [search EXCEPT
                      !.cameFrom = (neighbor :> current.position) @@ @,
                      !.openSet[existingIndex].g = g,
                      !.openSet[existingIndex].f = f]
             ELSE search

\* the body of the loop over the directions for one neighbor; search is the openSet,
\* the closedSet and cameFrom
VisitNeighbor(map, to, occupied, current, neighbor, search) ==
    IF neighbor \in search.closedSet THEN search
    ELSE IF ~isWalkable(map, neighbor.x, neighbor.y) THEN search
    ELSE IF neighbor \in occupied THEN search
    ELSE LET g == current.g + 1
             f == g + heuristic(neighbor, to)
             existingIndex == findIndex(search.openSet, neighbor)
         IN  IF existingIndex = 0
             THEN [search EXCEPT
                      !.cameFrom = (neighbor :> current.position) @@ @,
                      !.openSet = Append(@, [position |-> neighbor, g |-> g, f |-> f,
                                             parent |-> <<current.position>>])]
             ELSE IF g < search.openSet[existingIndex].g
             THEN [search EXCEPT
                      !.cameFrom = (neighbor :> current.position) @@ @,
                      !.openSet[existingIndex].g = g,
                      !.openSet[existingIndex].f = f]
             ELSE search

RECURSIVE VisitNeighbors(_, _, _, _, _, _)
VisitNeighbors(map, to, occupied, current, d, search) ==
    IF d > Len(directions) THEN search
    ELSE VisitNeighbors(map, to, occupied, current, d + 1,
             VisitNeighbor(map, to, occupied, current,
                           getNewPosition(map, current.position, directions[d]), search))

RECURSIVE ReconstructPath(_, _, _)
ReconstructPath(cameFrom, currentPos, path) ==
    IF currentPos \in DOMAIN cameFrom
    THEN ReconstructPath(cameFrom, cameFrom[currentPos], <<currentPos>> \o path)
    ELSE <<currentPos>> \o path

\* openSet.sort((a, b) => a.f - b.f)
Sorted(search) == [search EXCEPT !.openSet = SortByF(@, 1, << >>)]

\* one pass of the while loop of findPath past the test for the target: current is
\* shifted off the openSet and closed, its neighbors are visited and the openSet sorted
Expanded(map, to, occupied, search) ==
    Sorted(VisitNeighbors(map, to, occupied, Head(search.openSet), 1,
                          [search EXCEPT
                              !.openSet = Tail(@),
                              !.closedSet = @ \cup {Head(search.openSet).position}]))

RECURSIVE SearchSorted(_, _, _, _)
\* the while loop of findPath, the openSet sorted
SearchSorted(map, to, occupied, search) ==
    IF Len(search.openSet) = 0 THEN << >>
    ELSE IF Head(search.openSet).position = to
    THEN ReconstructPath(search.cameFrom, to, << >>)
    ELSE SearchSorted(map, to, occupied, Expanded(map, to, occupied, search))

findPath(map, from, to, occupiedPositions) ==
    SearchSorted(map, to, Range(occupiedPositions),
                 [openSet |-> <<[position |-> from, g |-> 0, f |-> heuristic(from, to),
                                 parent |-> << >>]>>,
                  closedSet |-> {},
                  cameFrom |-> << >>])

----------------------------------------------------------------------------
(* GameMap.findPath on maps of up to MaxSide by MaxSide tiles *)

Layouts == {"open", "wall", "gap", "pond"}

RECURSIVE SetTiles(_, _, _)
\* setTile for every position of the sequence
SetTiles(map, positions, type) ==
    IF positions = << >> THEN map
    ELSE SetTiles(setTile(map, Head(positions).x, Head(positions).y, type),
                  Tail(positions), type)

\* an empty map of grass; with a wall down column 1; with that wall open in row 0;
\* with water on the tile at 1,1
MapOf(layout, width, height) ==
    CASE layout = "open" -> createEmpty(width, height, "grass")
      [] layout = "wall" ->
             SetTiles(createEmpty(width, height, "grass"),
                      [k \in 1 .. height |-> [x |-> 1, y |-> k - 1]], "wall")
      [] layout = "gap" ->
             SetTiles(createEmpty(width, height, "grass"),
                      [k \in 1 .. height - 1 |-> [x |-> 1, y |-> k]], "wall")
      [] layout = "pond" ->
             setTile(createEmpty(width, height, "grass"), 1, 1, "water")

\* the positions other characters stand on: nobody, or somebody at 1,0
OccupiedPositions == {<< >>, <<[x |-> 1, y |-> 0]>>}

PathInit ==
    /\ routineGenerator = "default"
    /\ localStorage = NoStorage
    /\ planner = << >>
    /\ query = << >>
    /\ Unwired
    /\ \E layout \in Layouts, width \in 1 .. MaxSide, height \in 1 .. MaxSide :
          \E fromX, toX \in 0 .. width - 1, fromY, toY \in 0 .. height - 1,
             occupiedPositions \in OccupiedPositions :
              lastCall = [op |-> "none", map |-> MapOf(layout, width, height),
                          from |-> [x |-> fromX, y |-> fromY],
                          to |-> [x |-> toX, y |-> toY],
                          occupiedPositions |-> occupiedPositions]

FindPath ==
    /\ lastCall.op = "none"
    /\ lastCall' = [lastCall EXCEPT !.op = "findPath"] @@
                   [path |-> findPath(lastCall.map, lastCall.from, lastCall.to,
                                      lastCall.occupiedPositions)]
    /\ UNCHANGED <<planVars, localStorage, busVars, clockRun, memVars>>

PathNext == FindPath

SpecPath == PathInit /\ [][PathNext]_vars

\* the positions of the map
Cells(map) == {[x |-> x, y |-> y] : x \in 0 .. map.width - 1, y \in 0 .. map.height - 1}

Walkable(map) == {c \in Cells(map) : map.tiles[c.y][c.x] \in {"grass", "path", "floor", "door"}}

RECURSIVE ReachableFrom(_, _)
\* the positions a walk over free tiles gets to from the positions of `reached`
ReachableFrom(free, reached) ==
    LET more == {c \in free \ reached :
                    \E r \in reached : Abs(c.x - r.x) + Abs(c.y - r.y) = 1}
    IN  IF more = {} THEN reached ELSE ReachableFrom(free, reached \cup more)

\* C18: on a map of walkable tiles only, nobody in the way, findPath returns Manhattan
\* distance + 1 positions, from the start to the target; and it returns no position when
\* tiles that are not walkable or are occupied cut the target off from the start
C18_FindPathShortestOrEmpty ==
    lastCall.op = "findPath" =>
        LET map == lastCall.map
            occupied == Range(lastCall.occupiedPositions)
        IN  /\ (Walkable(map) = Cells(map) /\ occupied = {}) =>
                   /\ Len(lastCall.path)
                          = Abs(lastCall.to.x - lastCall.from.x)
                            + Abs(lastCall.to.y - lastCall.from.y) + 1
                   /\ lastCall.path[1] = lastCall.from
                   /\ lastCall.path[Len(lastCall.path)] = lastCall.to
            /\ lastCall.to \notin ReachableFrom(Walkable(map) \ occupied, {lastCall.from})
                   => lastCall.path = << >>

\* a path across an open map from one corner to the opposite one
C18_Witness ==
    /\ lastCall.op = "findPath"
    /\ Walkable(lastCall.map) = Cells(lastCall.map)
    /\ lastCall.occupiedPositions = << >>
    /\ lastCall.from = [x |-> 0, y |-> 0]
    /\ lastCall.to = [x |-> 2, y |-> 2]
    /\ Len(lastCall.path) = 5

\* the target behind a wall: no path
C18_WitnessCutOff ==
    /\ lastCall.op = "findPath"
    /\ lastCall.from.x = 0
    /\ lastCall.to.x = 2
    /\ Walkable(lastCall.map) # Cells(lastCall.map)
    /\ lastCall.path = << >>

----------------------------------------------------------------------------
(* ConversationManager.addMessage, CharacterManager.remove and getNearby *)

\* what conversations.get(conversationId) returns, << >> for undefined
getConversation(st, conversationId) ==
    SelectSeq(st.world.conversations, LAMBDA c : c.id = conversationId)

\* the message addMessage builds
NewMessage(st, speakerId, content) ==
    [speakerId |-> speakerId, content |-> content, timestamp |-> st.now]

\* addMessage that leaves a conversation with an end time alone
addMessageWhileOpen(st, conversationId, speakerId, content) ==
    LET found == getConversation(st, conversationId)
    IN  IF found = << >> \/ found[1].endTime # << >> THEN st
        ELSE emit([st EXCEPT !.world.conversations =
                                MapSet(@, [found[1] EXCEPT !.messages =
                                              Append(@, NewMessage(st, speakerId, content))])],
                  "conversation:message",
                  [conversationId |-> conversationId,
                   message |-> NewMessage(st, speakerId, content)], 0)

\* ConversationManager.addMessage: the state it leaves
addMessage(st, conversationId, speakerId, content) ==
    LET found == getConversation(st, conversationId)
    IN  IF found = << >> THEN st
        ELSE emit([st EXCEPT !.world.conversations =
                                MapSet(@, [found[1] EXCEPT !.messages =
                                              Append(@, NewMessage(st, speakerId, content))])],
                  "conversation:message",
                  [conversationId |-> conversationId,
                   message |-> NewMessage(st, speakerId, content)], 0)

\* ConversationManager.addMessage: what it returns, << >> for null
addMessageReturns(st, conversationId, speakerId, content) ==
    IF getConversation(st, conversationId) = << >> THEN << >>
    ELSE <<NewMessage(st, speakerId, content)>>

\* this.characters.delete(id)
removed(st, id) == \E i \in 1 .. Len(st.world.characters) : st.world.characters[i].id = id

\* remove without the test of what this.characters.delete returned
removeUnchecked(st, id) ==
    emit([st EXCEPT !.world.characters = SelectSeq(@, LAMBDA c : c.id # id)],
         "character:removed", [characterId |-> id], 0)

\* CharacterManager.remove: the state it leaves; it returns removed(st, id)
remove(st, id) ==
    IF removed(st, id)
    THEN emit([st EXCEPT !.world.characters = SelectSeq(@, LAMBDA c : c.id # id)],
              "character:removed", [characterId |-> id], 0)
    ELSE st

PERCEPTION_RADIUS == 5

\* the characters of a small cast, and where each one stands
CastTemplates ==
    <<[id |-> "sheldon", name |-> "Sheldon Cooper", occupation |-> "Theoretical Physicist",
       startPosition |-> [x |-> 0, y |-> 0]],
      [id |-> "penny", name |-> "Penny", occupation |-> "Waitress",
       startPosition |-> [x |-> 3, y |-> 5]],
      [id |-> "howard", name |-> "Howard Wolowitz", occupation |-> "Aerospace Engineer",
       startPosition |-> [x |-> 6, y |-> 0]]>>

\* Character.position: nobody moves, so it is the template's startPosition
position(character) ==
    (CHOOSE template \in Range(CastTemplates) : template.id = character.id).startPosition

\* CharacterManager.getNearby
getNearby(st, characterId, radius) ==
    LET character == SelectSeq(st.world.characters, LAMBDA c : c.id = characterId)
    IN  IF character = << >> THEN << >>
        ELSE SelectSeq(st.world.characters,
                       LAMBDA other :
                           IF other.id = characterId THEN FALSE
                           ELSE /\ Abs(position(other).x - position(character[1]).x) <= radius
                                /\ Abs(position(other).y - position(character[1]).y) <= radius)

----------------------------------------------------------------------------
(* A ConversationManager and a CharacterManager on one EventBus that a handler has
   subscribed to for every event *)

\* new EventBus(), new CharacterManager(eventBus), new ConversationManager(eventBus)
NewManagers(dateNow) ==
    [listeners |-> [type \in EventTypes |-> << >>], wildcardListeners |-> << >>,
     eventLog |-> << >>, throwers |-> {}, time |-> DEFAULT_TIME,
     world |-> [id |-> "", characters |-> << >>, conversations |-> << >>,
                activeConversation |-> << >>],
     now |-> dateNow, exception |-> FALSE, trace |-> << >>]

\* a call has returned: what it leaves in the variables, and its record with the id it
\* was called with and what it returned
Answered(op, id, result, st) ==
    /\ Returned(st)
    /\ lastCall' = [op |-> op, argument |-> id, result |-> result, trace |-> st.trace,
                    uncaught |-> st.exception]

\* the ids addMessage and end are called with: those in use, and one that never was
ConversationIds == {c.id : c \in Range(world.conversations)} \cup {"conv-stale"}

\* the ids getNearby is asked about and the ids remove is called with; nobody is "raj"
CharacterIds == {"sheldon", "raj"}

RemovedIds == {"howard", "raj"}

TalkInit ==
    /\ routineGenerator = "getDefaultRoutine"
    /\ localStorage = NoStorage
    /\ planner = << >>
    /\ query = << >>
    /\ Constructed(addCharacters(onAll(NewManagers(0), "plain"), CastTemplates, 1))
    /\ clockRun = NoRun
    /\ NoMemory
    /\ lastCall = NoCall

\* a conversation starts, dateNow being the time: that of the call before or later;
\* at most so many conversations are stored
TalkStart(dateNow, most) ==
    /\ dateNow <= MaxNow
    /\ Len(world.conversations) < most
    /\ Answered("conversations.start", "", "conv-" \o ToString(dateNow),
                startConversation([BusState EXCEPT !.now = dateNow],
                                  <<"sheldon", "penny">>, [x |-> 2, y |-> 2]))
    /\ UNCHANGED <<planVars, localStorage, memVars, clockRun>>

RECURSIVE SaidIn(_, _)
\* the number of messages of the conversations from position i on
SaidIn(conversations, i) ==
    IF i > Len(conversations) THEN 0
    ELSE Len(conversations[i].messages) + SaidIn(conversations, i + 1)

\* what is said next in a conversation of so many messages
NextLine(said) == IF said = 0 THEN "Hello" ELSE "Bazinga"

\* somebody speaks; at most so many messages are said in all
TalkAddMessage(conversationId, most) ==
    /\ SaidIn(world.conversations, 1) < most
    /\ LET found == getConversation(BusState, conversationId)
           content == NextLine(IF found = << >> THEN 0 ELSE Len(found[1].messages))
       IN  Answered("conversations.addMessage", conversationId,
                    addMessageReturns(BusState, conversationId, "sheldon", content),
                    addMessage(BusState, conversationId, "sheldon", content))
    /\ UNCHANGED <<planVars, localStorage, memVars, clockRun>>

TalkEnd(conversationId) ==
    /\ Answered("conversations.end", conversationId, << >>,
                endConversation(BusState, conversationId))
    /\ UNCHANGED <<planVars, localStorage, memVars, clockRun>>

TalkRemove(id) ==
    /\ Answered("characters.remove", id, removed(BusState, id), remove(BusState, id))
    /\ UNCHANGED <<planVars, localStorage, memVars, clockRun>>

TalkGetNearby(id) ==
    /\ Answered("characters.getNearby", id, getNearby(BusState, id, PERCEPTION_RADIUS),
                BusState)
    /\ UNCHANGED <<planVars, localStorage, memVars, clockRun>>

TalkNext ==
    \/ \E dateNow \in {now, now + 1} : TalkStart(dateNow, MaxConversations)
    \/ \E conversationId \in ConversationIds :
          TalkAddMessage(conversationId, MaxMessages) \/ TalkEnd(conversationId)

SpecTalk == TalkInit /\ [][TalkNext]_vars

\* the calls of both managers, with ids that are in use and ids that are not, around a
\* short conversation
StaleNext ==
    \/ \E dateNow \in {now, now + 1} : TalkStart(dateNow, MaxStale)
    \/ \E conversationId \in ConversationIds :
          TalkAddMessage(conversationId, MaxStale) \/ TalkEnd(conversationId)
    \/ \E id \in RemovedIds : TalkRemove(id)
    \/ \E id \in CharacterIds : TalkGetNearby(id)

SpecStale == TalkInit /\ [][StaleNext]_vars

----------------------------------------------------------------------------
(* The life of a conversation *)

\* the types of the events a call published, in the order it published them
PublishedTypes(trace) == [i \in 1 .. Len(Published(trace)) |-> Published(trace)[i].type]

\* the conversation stored under an id in a world, << >> if there is none
StoredIn(w, conversationId) == SelectSeq(w.conversations, LAMBDA c : c.id = conversationId)

\* the conversations other than the one of this id are what they were
OthersKept(conversationId) ==
    /\ \A c \in Range(world.conversations) :
          c.id # conversationId => c \in Range(world'.conversations)
    /\ \A c \in Range(world'.conversations) :
          c.id # conversationId => c \in Range(world.conversations)

\* getActive(), when it is not null, is a stored conversation without an end time
ActiveIsOpen ==
    world.activeConversation # << >> =>
        /\ StoredIn(world, world.activeConversation[1]) # << >>
        /\ StoredIn(world, world.activeConversation[1])[1].endTime = << >>

\* what start() has done when it returns the id
StartedAs(conversationId) ==
    /\ StoredIn(world', conversationId) # << >>
    /\ StoredIn(world', conversationId)[1].messages = << >>
    /\ StoredIn(world', conversationId)[1].endTime = << >>
    /\ world'.activeConversation = <<conversationId>>
    /\ OthersKept(conversationId)
    /\ PublishedTypes(lastCall'.trace) = <<"conversation:started">>

\* what addMessage has done to a stored conversation when it returns the message
SaidAs(conversationId, message) ==
    /\ StoredIn(world', conversationId) # << >>
    /\ StoredIn(world', conversationId)[1] =
          [StoredIn(world, conversationId)[1] EXCEPT !.messages = Append(@, message)]
    /\ world'.activeConversation = world.activeConversation
    /\ OthersKept(conversationId)
    /\ PublishedTypes(lastCall'.trace) = <<"conversation:message">>

\* what end has done to a stored conversation
EndedAs(conversationId) ==
    /\ StoredIn(world', conversationId) # << >>
    /\ StoredIn(world', conversationId)[1] =
          [StoredIn(world, conversationId)[1] EXCEPT !.endTime = <<now'>>]
    /\ world'.activeConversation =
          IF world.activeConversation = <<conversationId>> THEN << >>
          ELSE world.activeConversation
    /\ OthersKept(conversationId)
    /\ PublishedTypes(lastCall'.trace) = <<"conversation:ended">>

\* C19: start() stores a new conversation with no messages and no end time, makes it
\* the active conversation and publishes conversation:started; addMessage appends the
\* message at the end of the conversation's messages and publishes
\* conversation:message; end(id) stamps the end time, clears the active pointer when
\* id is the active conversation, leaves it untouched otherwise, and publishes
\* conversation:ended; and whenever getActive() is not null it is a stored
\* conversation that has not been ended
C19_ConversationLifecycle ==
    /\ []ActiveIsOpen
    /\ [][/\ lastCall'.op = "conversations.start" => StartedAs(lastCall'.result)
          /\ (lastCall'.op = "conversations.addMessage"
                  /\ StoredIn(world, lastCall'.argument) # << >>)
                => /\ lastCall'.result # << >>
                   /\ SaidAs(lastCall'.argument, lastCall'.result[1])
          /\ (lastCall'.op = "conversations.end"
                  /\ StoredIn(world, lastCall'.argument) # << >>)
                => EndedAs(lastCall'.argument)]_vars

\* a conversation of two messages has been ended while a later one was active, and the
\* later one still is
C19_Witness ==
    /\ lastCall.op = "conversations.end"
    /\ StoredIn(world, lastCall.argument) # << >>
    /\ Len(StoredIn(world, lastCall.argument)[1].messages) = 2
    /\ StoredIn(world, lastCall.argument)[1].endTime # << >>
    /\ world.activeConversation # << >>
    /\ world.activeConversation # <<lastCall.argument>>

----------------------------------------------------------------------------
(* Calls with ids that name nothing *)

\* a call that returned without throwing, without publishing and without a change to
\* the conversations, the active conversation, the characters or the log of events
NothingDone ==
    /\ ~lastCall'.uncaught
    /\ lastCall'.trace = << >>
    /\ world' = world
    /\ eventLog' = eventLog

\* no character of this id is managed
UnknownCharacter(id) == \A c \in Range(world.characters) : c.id # id

\* C20: end(id) and addMessage(id, ...) with an id that names no stored conversation
\* never throw, publish no event and leave every conversation and the active pointer
\* unchanged, addMessage returning null; remove(id) and getNearby(id) with an unknown
\* id return false and an empty list, publish nothing and change nothing
C20_StaleReferencesAreNoOps ==
    [][/\ (lastCall'.op = "conversations.end" /\ StoredIn(world, lastCall'.argument) = << >>)
             => NothingDone
       /\ (lastCall'.op = "conversations.addMessage"
               /\ StoredIn(world, lastCall'.argument) = << >>)
             => NothingDone /\ lastCall'.result = << >>
       /\ (lastCall'.op = "characters.remove" /\ UnknownCharacter(lastCall'.argument))
             => NothingDone /\ lastCall'.result = FALSE
       /\ (lastCall'.op = "characters.getNearby" /\ UnknownCharacter(lastCall'.argument))
             => NothingDone /\ lastCall'.result = << >>]_vars

\* end has been called with an id that names no conversation while a conversation
\* with a message was active and a character had been removed
C20_Witness ==
    /\ lastCall.op = "conversations.end"
    /\ StoredIn(world, lastCall.argument) = << >>
    /\ world.activeConversation # << >>
    /\ StoredIn(world, world.activeConversation[1])[1].messages # << >>
    /\ Len(world.characters) < Len(CastTemplates)

----------------------------------------------------------------------------
(* A TimeSystem paused, resumed, toggled and ticked from a minute before midnight, on
   a bus with a handler for every event that may throw; clockRun counts the ticks,
   the calls of pause, resume and togglePause, the events these published and the
   times the paused flag changed *)

PauseInit ==
    /\ routineGenerator = "getDefaultRoutine"
    /\ localStorage = NoStorage
    /\ planner = << >>
    /\ query = << >>
    /\ listeners = [type \in EventTypes |-> << >>]
    /\ wildcardListeners = <<"plain">>
    /\ eventLog = << >>
    /\ throwers \in SUBSET {"plain"}
    /\ \E isPaused \in BOOLEAN, speed \in {1, 60} :
          gameTime = [ClockStartTime EXCEPT !.isPaused = isPaused, !.speed = speed]
    /\ world = NoWorld
    /\ now = 0
    /\ clockRun = [ticks |-> 0, calls |-> 0, published |-> 0, changes |-> 0]
    /\ NoMemory
    /\ lastCall = NoCall

\* a call of pause, resume or togglePause has returned
Toggled(op, st) ==
    /\ clockRun.calls < MaxPauseCalls
    /\ Returned(st)
    /\ lastCall' = [op |-> op, trace |-> st.trace, uncaught |-> st.exception]
    /\ clockRun' = [clockRun EXCEPT
                      !.calls = @ + 1,
                      !.published = @ + Len(Published(st.trace)),
                      !.changes = @ + IF st.time.isPaused # gameTime.isPaused THEN 1 ELSE 0]
    /\ UNCHANGED <<planVars, localStorage, memVars>>

PauseCall == Toggled("pause", pause(BusState))

ResumeCall == Toggled("resume", resume(BusState))

TogglePause == Toggled("togglePause", togglePause(BusState))

\* TimeSystem.tick
TickCall ==
    /\ clockRun.ticks < MaxBusTicks
    /\ LET st == tick(BusState)
       IN  /\ Returned(st)
           /\ lastCall' = [op |-> "tick", trace |-> st.trace, uncaught |-> st.exception]
    /\ clockRun' = [clockRun EXCEPT !.ticks = @ + 1]
    /\ UNCHANGED <<planVars, localStorage, memVars>>

PauseNext == PauseCall \/ ResumeCall \/ TogglePause \/ TickCall

SpecPause == PauseInit /\ [][PauseNext]_vars

\* a step that changes nothing of the clock and publishes nothing
ClockUntouched ==
    /\ gameTime' = gameTime
    /\ eventLog' = eventLog
    /\ lastCall'.trace = << >>

\* a step that sets the paused flag to `paused`, changes nothing else of the time and
\* publishes one event, of this type
Flipped(paused, type) ==
    /\ gameTime' = [gameTime EXCEPT !.isPaused = paused]
    /\ PublishedTypes(lastCall'.trace) = <<type>>
    /\ ~lastCall'.uncaught

\* C21: pause on a paused clock and resume on a running clock change nothing and
\* publish nothing; pause on a running clock and resume on a paused clock flip the
\* paused flag and publish exactly one time:paused and time:resumed event; so the
\* number of events published by any sequence of pause and resume calls is the number
\* of changes of the flag
C21_PauseResumeIdempotent ==
    /\ [](clockRun.published = clockRun.changes)
    /\ [][/\ (lastCall'.op = "pause" /\ gameTime.isPaused) => ClockUntouched
          /\ (lastCall'.op = "resume" /\ ~gameTime.isPaused) => ClockUntouched
          /\ (lastCall'.op = "pause" /\ ~gameTime.isPaused) => Flipped(TRUE, "time:paused")
          /\ (lastCall'.op \in {"resume", "togglePause"} /\ gameTime.isPaused)
                => Flipped(FALSE, "time:resumed")
          /\ (lastCall'.op = "togglePause" /\ ~gameTime.isPaused)
                => Flipped(TRUE, "time:paused")]_vars

\* pause has been called on a paused clock after the flag had changed twice
C21_Witness ==
    /\ lastCall.op = "pause"
    /\ lastCall.trace = << >>
    /\ gameTime.isPaused
    /\ clockRun.changes >= 2
    /\ clockRun.calls > clockRun.changes

----------------------------------------------------------------------------
(* A World ticked, paused and resumed at any time; clockRun keeps the time at which
   the clock was last paused, and whether it has been ticked since it was resumed *)

\* the day, hour and minute of a time
ClockOf(time) == [day |-> time.day, hour |-> time.hour, minute |-> time.minute]

HaltInit ==
    /\ routineGenerator = "getDefaultRoutine"
    /\ localStorage = NoStorage
    /\ planner = << >>
    /\ query = << >>
    /\ \E random \in RandomSuffixes :
        Constructed(fromTemplate([hour |-> 22, minute |-> 0, speed |-> 60],
                                 TemplateTree, 1, random))
    /\ clockRun = [ticks |-> 0, pausedAt |-> << >>, resumed |-> FALSE]
    /\ NoMemory
    /\ lastCall = NoCall

\* World.tick, which the periodic driver of TimeSystem.start calls too
HaltTick ==
    /\ gameTime.day <= MaxDay
    /\ Called("World.tick", tick(BusState))
    /\ clockRun' = IF gameTime.isPaused THEN clockRun ELSE [clockRun EXCEPT !.resumed = FALSE]
    /\ UNCHANGED <<planVars, localStorage, memVars>>

\* World.pause
HaltPause ==
    /\ Called("World.pause", pause(BusState))
    /\ clockRun' = IF gameTime.isPaused THEN clockRun
                   ELSE [clockRun EXCEPT !.pausedAt = <<ClockOf(gameTime)>>,
                                         !.resumed = FALSE]
    /\ UNCHANGED <<planVars, localStorage, memVars>>

\* World.resume
HaltResume ==
    /\ Called("World.resume", resume(BusState))
    /\ clockRun' = IF gameTime.isPaused THEN [clockRun EXCEPT !.resumed = TRUE]
                   ELSE clockRun
    /\ UNCHANGED <<planVars, localStorage, memVars>>

HaltNext == HaltTick \/ HaltPause \/ HaltResume

SpecHalt == HaltInit /\ [][HaltNext]_vars

\* C22: while the clock is paused a tick leaves day, hour and minute unchanged and
\* publishes no event, so no action or plan of a character is refreshed; and the
\* first tick after resume advances from exactly the time at which the clock was
\* paused
C22_PausedClockStandsStill ==
    /\ [](gameTime.isPaused => <<ClockOf(gameTime)>> = clockRun.pausedAt)
    /\ [][/\ (lastCall'.op = "World.tick" /\ gameTime.isPaused) =>
                /\ gameTime' = gameTime
                /\ world' = world
                /\ eventLog' = eventLog
                /\ lastCall'.trace = << >>
          /\ (lastCall'.op = "World.tick" /\ clockRun.resumed) =>
                /\ ~gameTime.isPaused
                /\ PublishedOf(lastCall'.trace, "time:tick") = 1
                /\ MinutesSinceDayOne(gameTime') =
                      MinutesSinceDayOne(clockRun.pausedAt[1]) + gameTime.speed]_vars

\* a tick has advanced the clock into the next day from the time at which it was
\* paused, ticks in between having done nothing
C22_Witness ==
    /\ lastCall.op = "World.tick"
    /\ clockRun.pausedAt # << >>
    /\ ~clockRun.resumed
    /\ ~gameTime.isPaused
    /\ MinutesSinceDayOne(gameTime) = MinutesSinceDayOne(clockRun.pausedAt[1]) + 60
    /\ gameTime.day = 2

\* the last event of the log
LastLogged == eventLog[Len(eventLog)]

\* a call of tick published one time:tick event, after every other event of the
\* call, with the time the call left and the speed as delta
TickPublished ==
    /\ PublishedOf(lastCall'.trace, "time:tick") = 1
    /\ LastLogged' = [type |-> "time:tick",
                      payload |-> [time |-> gameTime', delta |-> gameTime.speed]]
    /\ MinutesSinceDayOne(gameTime') = MinutesSinceDayOne(gameTime) + gameTime.speed

\* C23 as claimed: every call of tick publishes exactly one time:tick event with the
\* resulting time and a delta equal to the speed
C23_EveryTickPublishes == [][lastCall'.op = "tick" => TickPublished]_vars

\* C23: every call of tick on a clock that is not paused publishes exactly one
\* time:tick event, whose payload carries the time after the advance and a delta equal
\* to the speed; a call on a paused clock publishes none
C23_RunningTickPublishes ==
    [][/\ (lastCall'.op = "tick" /\ ~gameTime.isPaused) => TickPublished
       /\ (lastCall'.op = "tick" /\ gameTime.isPaused) =>
             PublishedOf(lastCall'.trace, "time:tick") = 0]_vars

\* a tick at speed 60 has crossed midnight and published time:tick after the events of
\* the hour and the day, the handler of every event throwing
C23_Witness ==
    /\ lastCall.op = "tick"
    /\ throwers = {"plain"}
    /\ gameTime.speed = 60
    /\ gameTime.day = 2
    /\ PublishedTypes(lastCall.trace) = <<"time:hour-changed", "time:day-changed", "time:tick">>
    /\ LastLogged.payload.time = gameTime

----------------------------------------------------------------------------
(* The speed of a TimeSystem under the operations that set it.  A speed is a fraction
   here, as the scores of a MemoryStream are, 0.1 being Frac(1, 10) *)

\* a time whose speed is a whole number, its speed written as a fraction
WithFraction(time) == [time EXCEPT !.speed = Num(@)]

\* new TimeSystem(eventBus, { initialTime })
NewTimeSystem(st, initialTime) ==
    [st EXCEPT !.time = Spread(WithFraction(DEFAULT_TIME), initialTime)]

\* TimeSystem.setTime; time is a Partial<GameTime>
setTime(st, time) ==
    LET set == [st EXCEPT !.time = Spread(@, time)]
        dayDone ==
            IF "day" \in DOMAIN time /\ time.day # st.time.day
            THEN emit(set, "time:day-changed", [oldDay |-> st.time.day, newDay |-> time.day], 0)
            ELSE set
    IN  IF "hour" \in DOMAIN time /\ time.hour # st.time.hour
        THEN emit(dayDone, "time:hour-changed",
                  [oldHour |-> st.time.hour, newHour |-> time.hour], 0)
        ELSE dayDone

\* TimeSystem.setSpeed: Math.max(0.1, Math.min(60, speed))
setSpeed(st, speed) ==
    emit([st EXCEPT !.time.speed = Higher(Frac(1, 10), Lower(Num(60), speed))],
         "time:speed-changed",
         [oldSpeed |-> st.time.speed,
          newSpeed |-> Higher(Frac(1, 10), Lower(Num(60), speed))], 0)

\* TimeSystem.deserialize
deserializeTime(st, time) == [st EXCEPT !.time = time]

\* TimeSystem.reset
resetTime(st) == [st EXCEPT !.time = WithFraction(DEFAULT_TIME)]

\* the speeds the operations are called with: 0, 0.05, 0.5, 60 and 100
SpeedArguments == {Num(0), Frac(1, 20), Frac(1, 2), Num(60), Num(100)}

\* what setTime is called with
TimeArguments == {[speed |-> speed] : speed \in SpeedArguments} \cup {[hour |-> 9], [day |-> 2]}

SpeedInit ==
    /\ routineGenerator = "getDefaultRoutine"
    /\ localStorage = NoStorage
    /\ planner = << >>
    /\ query = << >>
    /\ \E initialTime \in {<< >>} \cup {[speed |-> speed] : speed \in SpeedArguments} :
          Constructed(NewTimeSystem([onAll(NewManagers(0), "plain") EXCEPT !.world = NoWorld],
                                    initialTime))
    /\ clockRun = NoRun
    /\ NoMemory
    /\ lastCall = NoCall

\* a call that sets the time has returned
TimeSet(op, st) ==
    /\ Returned(st)
    /\ lastCall' = [op |-> op, trace |-> st.trace, uncaught |-> st.exception]
    /\ UNCHANGED <<planVars, localStorage, memVars, clockRun>>

SetSpeed(speed) == TimeSet("setSpeed", setSpeed(BusState, speed))

SetTime(time) == TimeSet("setTime", setTime(BusState, time))

\* deserialize with the time another TimeSystem serialized
DeserializeTime(speed) ==
    TimeSet("deserialize",
            deserializeTime(BusState, [WithFraction(DEFAULT_TIME) EXCEPT !.speed = speed]))

ResetTime == TimeSet("reset", resetTime(BusState))

SpeedNext ==
    \/ \E speed \in SpeedArguments : SetSpeed(speed) \/ DeserializeTime(speed)
    \/ \E time \in TimeArguments : SetTime(time)
    \/ ResetTime

SpecSpeed == SpeedInit /\ [][SpeedNext]_vars

\* C24: the speed of a TimeSystem is always within 0.1 and 60
C24_SpeedWithinRange ==
    /\ ~Less(gameTime.speed, Frac(1, 10))
    /\ ~Less(Num(60), gameTime.speed)

----------------------------------------------------------------------------
(* A World that is serialized again and again while it runs *)

\* World.serialize, dateNow being the time of the call: that of the call before or later
Serialize(dateNow) ==
    /\ dateNow <= MaxNow
    /\ Returned(serialize([BusState EXCEPT !.now = dateNow]))
    /\ lastCall' = [op |-> "World.serialize",
                    returned |-> WorldStateOf(serialize([BusState EXCEPT !.now = dateNow]))]
    /\ UNCHANGED <<planVars, localStorage, memVars, clockRun>>

SerializeNext ==
    \/ \E dateNow \in {now, now + 1} : Serialize(dateNow)
    \/ SaveTick
    \/ StartConversation
    \/ EndConversation

SpecSerialize == SaveInit /\ [][SerializeNext]_vars

\* C25: serialize changes no state of the world, so that two serialize calls with no
\* operation in between return equal WorldStates, created and updated timestamps
\* included
C25_SerializeIsPureRead ==
    [][lastCall'.op = "World.serialize" =>
          /\ world' = world
          /\ lastCall.op = "World.serialize" => lastCall'.returned = lastCall.returned]_vars

----------------------------------------------------------------------------
(* A running World into which saved states are loaded, well-formed ones and ones
   that lack a list *)

\* a record without one of its fields
Without(record, key) == [k \in DOMAIN record \ {key} |-> record[k]]

\* what another World of the template serialized at 23:58 during a conversation
SavedState ==
    WorldStateOf(serialize(startConversation(
        fromTemplate([hour |-> 23, minute |-> 58], TemplateTree, 0, "k3j9x2m1q"),
        <<"sheldon", "penny">>, [x |-> 2, y |-> 2])))

\* the states loadState is called with
LoadedStates ==
    {SavedState, Without(SavedState, "characters"), Without(SavedState, "conversations")}

LoadState(state) ==
    /\ Len(world.simulationLog) < MaxLogLines
    /\ LET st == loadState(BusState, state)
       IN  /\ Returned(st)
           /\ lastCall' = [op |-> "World.loadState", state |-> state, trace |-> st.trace,
                           uncaught |-> st.exception]
    /\ UNCHANGED <<planVars, localStorage, memVars, clockRun>>

LoadNext ==
    \/ \E state \in LoadedStates : LoadState(state)
    \/ SaveTick

SpecLoad == SaveInit /\ [][LoadNext]_vars

\* loadState has replaced the time, the characters, the conversations, the logs and
\* the timestamps by those of the state, and then published world:loaded, once
LoadedAll(state) ==
    /\ gameTime' = state.time
    /\ [i \in 1 .. Len(world'.characters) |-> serializeCharacter(world'.characters[i])]
          = state.characters
    /\ world'.conversations = state.conversations
    /\ world'.simulationLog = state.simulationLog
    /\ world'.diffusionLog = state.diffusionLog
    /\ world'.createdAt = state.createdAt
    /\ world'.updatedAt = state.updatedAt
    /\ PublishedTypes(lastCall'.trace) = <<"world:loaded">>

\* C26: loadState replaces time, characters, conversations, logs and timestamps and
\* then publishes world:loaded exactly once; and when it fails on a malformed state,
\* a state without its characters or its conversations, it leaves no subsystem
\* replaced: the world is as it was
C26_LoadStateAllOrNothing ==
    [][lastCall'.op = "World.loadState" =>
          IF lastCall'.uncaught
          THEN gameTime' = gameTime /\ world' = world
          ELSE LoadedAll(lastCall'.state)]_vars

----------------------------------------------------------------------------
(* LocalStorageAdapter: saved worlds in the browser's localStorage.

   localStorage.items maps a key to the string stored under it.  A key is
   <<prefix, world id>>; a string is [json, length], the value JSON.stringify
   was given and how much of the quota it takes.  A WorldState holds numbers,
   strings, booleans, arrays and plain objects only, so JSON.parse gives back
   a value equal to the one stringified.  An adapter call returns the storage
   it leaves, what it returned and the message of the Error it rejected
   with, "" when it resolved. *)

STORAGE_PREFIX == "generative-agents-world-"

INDEX_KEY == "generative-agents-worlds-index"

\* STORAGE_PREFIX + worldId
WorldKey(worldId) == <<STORAGE_PREFIX, worldId>>

IndexKey == <<INDEX_KEY, "">>

\* the quota a stringified WorldState takes, in units of one index entry
StateLength == 2

\* JSON.stringify(state) of a WorldState
stringifyState(state) == [json |-> state, length |-> StateLength]

\* JSON.stringify(index) of a WorldMetadata[]
stringifyIndex(index) == [json |-> index, length |-> Len(index)]

\* JSON.parse
JSONparse(data) == data.json

RECURSIVE LengthOf(_, _)
\* what the items under the given keys take of the quota
LengthOf(items, keys) ==
    IF keys = {} THEN 0
    ELSE LET key == CHOOSE k \in keys : TRUE
         IN  items[key].length + LengthOf(items, keys \ {key})

\* localStorage.getItem: null (<< >>) or <<the string>>
getItem(storage, key) ==
    IF key \in DOMAIN storage.items THEN <<storage.items[key]>> ELSE << >>

\* localStorage.setItem: throws when the storage cannot be written or the
\* value does not fit into the quota, and then stores nothing
setItem(storage, key, value) ==
    LET others == LengthOf(storage.items, DOMAIN storage.items \ {key})
        items == [k \in DOMAIN storage.items \cup {key} |->
                     IF k = key THEN value ELSE storage.items[k]]
    IN  IF ~storage.available THEN [storage |-> storage, exception |-> "SecurityError"]
        ELSE IF others + value.length > storage.quota
        THEN [storage |-> storage, exception |-> "QuotaExceededError"]
        ELSE [storage |-> [storage EXCEPT !.items = items], exception |-> ""]

\* localStorage.removeItem
removeItem(storage, key) ==
    [storage EXCEPT !.items = [k \in DOMAIN storage.items \ {key} |-> storage.items[k]]]

\* LocalStorageAdapter.isAvailable: the test item is written and removed again
isAvailable(storage) == storage.available

\* LocalStorageAdapter.list
list(storage) ==
    IF ~isAvailable(storage) THEN << >>
    ELSE LET indexData == getItem(storage, IndexKey)
         IN  IF indexData = << >> THEN << >> ELSE JSONparse(indexData[1])

\* LocalStorageAdapter.exists
exists(storage, worldId) ==
    IF ~isAvailable(storage) THEN FALSE
    ELSE getItem(storage, WorldKey(worldId)) # << >>

\* the WorldMetadata updateIndex builds
Metadata(worldId, state) ==
    [id |-> worldId, name |-> state.config.name, description |-> state.config.description,
     createdAt |-> state.createdAt, updatedAt |-> state.updatedAt, templateId |-> "custom"]

\* index.findIndex((w) => w.id === worldId), 0 for -1
findIndexOf(index, worldId) ==
    IF \E i \in 1 .. Len(index) : index[i].id = worldId
    THEN CHOOSE i \in 1 .. Len(index) :
            /\ index[i].id = worldId
            /\ \A j \in 1 .. i - 1 : index[j].id # worldId
    ELSE 0

\* LocalStorageAdapter.updateIndex that pushes the metadata whatever the index holds
updateIndexPushing(storage, worldId, state) ==
    setItem(storage, IndexKey, stringifyIndex(Append(list(storage), Metadata(worldId, state))))

\* LocalStorageAdapter.updateIndex
updateIndex(storage, worldId, state) ==
    LET index == list(storage)
        existingIndex == findIndexOf(index, worldId)
        updated == IF existingIndex > 0
                   THEN [index EXCEPT ![existingIndex] = Metadata(worldId, state)]
                   ELSE Append(index, Metadata(worldId, state))
    IN  setItem(storage, IndexKey, stringifyIndex(updated))

\* LocalStorageAdapter.removeFromIndex
removeFromIndex(storage, worldId) ==
    LET index == list(storage)
        filtered == SelectSeq(index, LAMBDA w : w.id # worldId)
    IN  setItem(storage, IndexKey, stringifyIndex(filtered))

NotAvailable == "localStorage is not available"

QuotaExceeded == "Storage quota exceeded. Try deleting some saved worlds."

\* the Error save rethrows for the one setItem threw
Rethrown(exception) ==
    IF exception = "QuotaExceededError" THEN QuotaExceeded ELSE exception

\* LocalStorageAdapter.save
save(storage, worldId, state) ==
    IF ~isAvailable(storage)
    THEN [storage |-> storage, returned |-> << >>, exception |-> NotAvailable]
    ELSE LET stored == setItem(storage, WorldKey(worldId), stringifyState(state))
             indexed == updateIndex(stored.storage, worldId, state)
         IN  IF stored.exception # ""
             THEN [storage |-> stored.storage, returned |-> << >>,
                   exception |-> Rethrown(stored.exception)]
             ELSE [storage |-> indexed.storage, returned |-> << >>,
                   exception |-> Rethrown(indexed.exception)]

\* LocalStorageAdapter.load: null (<< >>) or <<the WorldState>>
load(storage, worldId) ==
    IF ~isAvailable(storage)
    THEN [storage |-> storage, returned |-> << >>, exception |-> NotAvailable]
    ELSE LET data == getItem(storage, WorldKey(worldId))
         IN  [storage |-> storage,
              returned |-> IF data = << >> THEN << >> ELSE <<JSONparse(data[1])>>,
              exception |-> ""]

\* LocalStorageAdapter.delete
delete(storage, worldId) ==
    IF ~isAvailable(storage)
    THEN [storage |-> storage, returned |-> << >>, exception |-> NotAvailable]
    ELSE LET existed == getItem(storage, WorldKey(worldId)) # << >>
             unlisted == removeFromIndex(removeItem(storage, WorldKey(worldId)), worldId)
         IN  [storage |-> unlisted.storage,
              returned |-> IF unlisted.exception = "" THEN <<existed>> ELSE << >>,
              exception |-> unlisted.exception]

\* the ids worlds are saved under
WorldIds == {"world-a", "world-b"}

\* the WorldStates saved: what the adapter reads of them, and when they were serialized
StoredStates ==
    {[config |-> [name |-> "Smallville", description |-> "A small town"],
      createdAt |-> 0, updatedAt |-> updatedAt] : updatedAt \in {1, 2}}

\* the quotas of the browser: room for no index entry, for one world and for two
Quotas == {StateLength, 2 * StateLength + 1, 2 * StateLength + 2}

\* the adapter's calls so far: the states saved and not deleted since, whether
\* a call rejected and whether a save replaced an earlier one of the same id
StorageInit ==
    /\ listeners = [type \in EventTypes |-> << >>]
    /\ wildcardListeners = << >>
    /\ eventLog = << >>
    /\ throwers = {}
    /\ gameTime = DEFAULT_TIME
    /\ world = NoWorld
    /\ now = 0
    /\ NoMemory
    /\ routineGenerator = "default"
    /\ planner = << >>
    /\ query = << >>
    /\ \E available \in BOOLEAN, quota \in Quotas :
          localStorage = [items |-> << >>, available |-> available, quota |-> quota]
    /\ clockRun = [saved |-> << >>, rejected |-> FALSE, replaced |-> FALSE]
    /\ lastCall = NoCall

\* an adapter call has settled
Settled(op, worldId, state, done, saved) ==
    /\ localStorage' = done.storage
    /\ lastCall' = [op |-> op, worldId |-> worldId, state |-> state,
                    returned |-> done.returned, exception |-> done.exception]
    /\ clockRun' = [saved |-> IF done.exception = "" THEN saved ELSE clockRun.saved,
                    rejected |-> clockRun.rejected \/ done.exception # "",
                    replaced |-> \/ clockRun.replaced
                                 \/ /\ op = "save"
                                    /\ done.exception = ""
                                    /\ worldId \in DOMAIN clockRun.saved]
    /\ UNCHANGED <<planVars, busVars, memVars>>

\* await adapter.save(worldId, state)
Save(worldId, state) ==
    Settled("save", worldId, state, save(localStorage, worldId, state),
            [id \in DOMAIN clockRun.saved \cup {worldId} |->
                IF id = worldId THEN state ELSE clockRun.saved[id]])

\* await adapter.load(worldId)
Load(worldId) ==
    Settled("load", worldId, << >>, load(localStorage, worldId), clockRun.saved)

\* await adapter.delete(worldId)
Delete(worldId) ==
    Settled("delete", worldId, << >>, delete(localStorage, worldId),
            [id \in DOMAIN clockRun.saved \ {worldId} |-> clockRun.saved[id]])

StorageNext ==
    \/ \E worldId \in WorldIds, state \in StoredStates : Save(worldId, state)
    \/ \E worldId \in WorldIds : Load(worldId)
    \/ \E worldId \in WorldIds : Delete(worldId)

SpecStorage == StorageInit /\ [][StorageNext]_vars

\* the ids the saved-worlds index lists
Listed(storage) == {w.id : w \in Range(list(storage))}

\* the ids a world entry is stored under
Stored(storage) == {worldId \in WorldIds : WorldKey(worldId) \in DOMAIN storage.items}

\* C27: on an unavailable store save, load and delete reject with an Error,
\* a write over the quota makes save reject with an Error, a save that
\* rejects leaves the world entries and the index as they were, and no world
\* entry is stored without its index entry
C27_StorageFailuresAreExplicit ==
    /\ [](Stored(localStorage) \subseteq Listed([localStorage EXCEPT !.available = TRUE]))
    /\ [][/\ ~localStorage.available => lastCall'.exception = NotAvailable
          /\ lastCall'.op = "save" /\ lastCall'.exception # ""
                => localStorage'.items = localStorage.items]_vars

\* what list() holds of the world saved under the id
EntriesOf(storage, worldId) == SelectSeq(list(storage), LAMBDA w : w.id = worldId)

\* exists, load and list tell of exactly the states saved and not deleted since
MatchesSaved(storage, saved) ==
    /\ \A worldId \in WorldIds :
          /\ exists(storage, worldId) <=> worldId \in DOMAIN saved
          /\ load(storage, worldId).returned =
                IF worldId \in DOMAIN saved THEN <<saved[worldId]>> ELSE << >>
          /\ EntriesOf(storage, worldId) =
                IF worldId \in DOMAIN saved
                THEN <<Metadata(worldId, saved[worldId])>> ELSE << >>
    /\ Listed(storage) = DOMAIN saved

\* C28: as long as every save and delete resolved, exists(id) is true exactly
\* for the ids saved and not deleted since, load(id) returns the state saved
\* last under such an id and null otherwise, list() holds exactly one entry
\* for each such id, that of its last save, and delete(id) returns whether
\* the id existed
C28_AdapterTellsWhatWasSaved ==
    /\ [](~clockRun.rejected => MatchesSaved(localStorage, clockRun.saved))
    /\ [][~clockRun'.rejected /\ lastCall'.op = "delete"
             => lastCall'.returned = <<lastCall'.worldId \in DOMAIN clockRun.saved>>]_vars

\* a world was saved twice, another one was saved and deleted again, and
\* every call resolved
C28_Witness ==
    /\ ~clockRun.rejected
    /\ clockRun.replaced
    /\ lastCall.op = "delete"
    /\ lastCall.returned = <<TRUE>>
    /\ DOMAIN clockRun.saved # {}

----------------------------------------------------------------------------
(* The event log of a bus that events are published on with emit and with
   emitAsync, next to the list of everything that was published *)

\* await emitAsync(type, payload) with handlers that return no promise: the
\* event is logged at once, then the queued microtasks call the handlers of
\* the type and the wildcard handlers in this order, each with its own catch
emitAsyncAwaited(st, type, payload) ==
    LET event == [type |-> type, payload |-> payload]
    IN  forEachHandler(forEachHandler(emitAsync(st, type, payload), event, "type", 1, 0),
                       event, "wildcard", 1, 0)

RingInit ==
    /\ routineGenerator = "getDefaultRoutine"
    /\ localStorage = NoStorage
    /\ planner = << >>
    /\ query = << >>
    /\ \E lateHandlers \in {<< >>, <<"republisher">>},
          allHandlers \in {<< >>, <<"plain">>} :
            /\ listeners = [type \in EventTypes |->
                               IF type = LateType THEN lateHandlers ELSE << >>]
            /\ wildcardListeners = allHandlers
    /\ eventLog = << >>
    /\ throwers \in SUBSET {"plain", "republisher"}
    /\ gameTime = DEFAULT_TIME
    /\ world = NoWorld
    /\ now = 0
    /\ clockRun = [published |-> << >>, calls |-> {}]
    /\ NoMemory
    /\ lastCall = NoCall

\* a call that publishes has returned: what it published is added to the list
PublishedBy(op, type, st) ==
    /\ Len(clockRun.published) < MaxPublished
    /\ Returned(st)
    /\ lastCall' = Call(op, type, "", st)
    /\ clockRun' = [published |-> clockRun.published \o Published(st.trace),
                    calls |-> clockRun.calls \cup {op}]
    /\ UNCHANGED <<planVars, localStorage, memVars>>

RingEmit(type) == PublishedBy("emit", type, emit(BusState, type, NoPayload, 0))

RingEmitAsync(type) ==
    PublishedBy("emitAsync", type, emitAsyncAwaited(BusState, type, NoPayload))

RingNext ==
    \/ \E type \in BusTypes : RingEmit(type)
    \/ \E type \in BusTypes : RingEmitAsync(type)

SpecRing == RingInit /\ [][RingNext]_vars

\* C29: after any sequence of emit and emitAsync calls the event log is no
\* longer than the maximum the bus was constructed with and holds the events
\* published last, in the order they were published in
C29_LogIsBoundedRing ==
    /\ Len(eventLog) <= MaxLogSize
    /\ eventLog = LastN(clockRun.published, MaxLogSize)

\* more events were published than the log holds, with emit and with
\* emitAsync, one of them by a handler while another event was delivered,
\* and the log holds events of different types
C29_Witness ==
    /\ Len(clockRun.published) > MaxLogSize
    /\ clockRun.calls = {"emit", "emitAsync"}
    /\ Len(Published(lastCall.trace)) > 1
    /\ \E i, j \in 1 .. Len(eventLog) : eventLog[i].type # eventLog[j].type

----------------------------------------------------------------------------
(* Character: position and movement of a character on a grid, with a handler
   subscribed to every event of its bus *)

\* the largest width and height of a grid a character moves on
MaxGrid == 2

\* Character.setPosition of the character in slot i
setPosition(st, i, at) ==
    emit([st EXCEPT !.world.characters[i].position = at], "character:moved",
         [characterId |-> st.world.characters[i].id,
          oldPosition |-> st.world.characters[i].position, newPosition |-> at], 0)

\* Character.setDirection
setDirection(st, i, direction) == [st EXCEPT !.world.characters[i].direction = direction]

\* the switch of Character.move
Target(at, direction, gridSize) ==
    CASE direction = "up"    -> [at EXCEPT !.y = Max2(0, @ - 1)]
      [] direction = "down"  -> [at EXCEPT !.y = Min2(gridSize.height - 1, @ + 1)]
      [] direction = "left"  -> [at EXCEPT !.x = Max2(0, @ - 1)]
      [] direction = "right" -> [at EXCEPT !.x = Min2(gridSize.width - 1, @ + 1)]

\* what Character.move returns
Moves(at, direction, gridSize) == Target(at, direction, gridSize) # at

\* Character.move that leaves the direction alone when the position does not change
moveKeepingDirection(st, i, direction, gridSize) ==
    IF Moves(st.world.characters[i].position, direction, gridSize)
    THEN setDirection(
             setPosition(st, i, Target(st.world.characters[i].position, direction, gridSize)),
             i, direction)
    ELSE st

\* Character.move
move(st, i, direction, gridSize) ==
    IF Moves(st.world.characters[i].position, direction, gridSize)
    THEN setDirection(
             setPosition(st, i, Target(st.world.characters[i].position, direction, gridSize)),
             i, direction)
    ELSE setDirection(st, i, direction)

\* the grids: a single column and a square
GridSizes == {[width |-> 1, height |-> MaxGrid], [width |-> MaxGrid, height |-> MaxGrid]}

\* the positions setPosition is called with: a corner and a cell right of every grid
SetPositions == {[x |-> 0, y |-> 0], [x |-> MaxGrid, y |-> MaxGrid - 1]}

InBounds(at, gridSize) ==
    /\ 0 <= at.x /\ at.x < gridSize.width
    /\ 0 <= at.y /\ at.y < gridSize.height

\* a character created from a template that starts it in the corner, on a
\* bus with one handler subscribed to every event; clockRun is the grid
MoveInit ==
    /\ routineGenerator = "getDefaultRoutine"
    /\ localStorage = NoStorage
    /\ planner = << >>
    /\ query = << >>
    /\ listeners = [type \in EventTypes |-> << >>]
    /\ wildcardListeners = <<"plain">>
    /\ eventLog = << >>
    /\ throwers \in SUBSET {"plain"}
    /\ gameTime = DEFAULT_TIME
    /\ world = [id |-> "", characters |->
                   <<[id |-> "sheldon", position |-> [x |-> 0, y |-> 0],
                      direction |-> "down", isMoving |-> FALSE]>>]
    /\ now = 0
    /\ \E gridSize \in GridSizes : clockRun = [gridSize |-> gridSize]
    /\ NoMemory
    /\ lastCall = NoCall

\* a call on the character has returned
Moved(op, direction, returned, st) ==
    /\ Returned(st)
    /\ lastCall' = [op |-> op, direction |-> direction, returned |-> returned,
                    trace |-> st.trace, uncaught |-> st.exception]
    /\ UNCHANGED <<planVars, localStorage, memVars, clockRun>>

Move(direction) ==
    Moved("move", direction,
          Moves(world.characters[1].position, direction, clockRun.gridSize),
          move(BusState, 1, direction, clockRun.gridSize))

SetPosition(at) == Moved("setPosition", "", FALSE, setPosition(BusState, 1, at))

MoveNext ==
    \/ \E direction \in Range(directions) : Move(direction)
    \/ \E at \in SetPositions : SetPosition(at)

SpecMove == MoveInit /\ [][MoveNext]_vars

\* the distance of two cells in steps along the grid
Steps(a, b) == Abs(a.x - b.x) + Abs(a.y - b.y)

\* the events a call published are one character:moved from the old position to the new
OneMoved(trace, oldPosition, newPosition) ==
    /\ PublishedTypes(trace) = <<"character:moved">>
    /\ eventLog'[Len(eventLog')].payload =
          [characterId |-> "sheldon", oldPosition |-> oldPosition, newPosition |-> newPosition]

\* C30: move from a position within the grid leaves the position within the
\* grid and sets the direction to the one requested; when the clamped target
\* is the current position it returns false and publishes nothing, otherwise
\* it moves one cell, returns true and publishes one character:moved;
\* setPosition publishes one character:moved on every call, also when the
\* position stays what it was
C30_MoveClampsAndFaces ==
    [][LET before == world.characters[1].position
           after == world'.characters[1].position
       IN  /\ lastCall'.op = "move" /\ InBounds(before, clockRun.gridSize) =>
                /\ InBounds(after, clockRun.gridSize)
                /\ world'.characters[1].direction = lastCall'.direction
                /\ ~lastCall'.uncaught
                /\ IF Target(before, lastCall'.direction, clockRun.gridSize) = before
                   THEN /\ lastCall'.returned = FALSE
                        /\ after = before
                        /\ Published(lastCall'.trace) = << >>
                        /\ eventLog' = eventLog
                   ELSE /\ lastCall'.returned = TRUE
                        /\ Steps(before, after) = 1
                        /\ OneMoved(lastCall'.trace, before, after)
           /\ lastCall'.op = "setPosition" =>
                /\ OneMoved(lastCall'.trace, before, after)
                /\ ~lastCall'.uncaught]_vars

\* a move against the edge of the grid that turned the character, after a
\* move that changed its position and a setPosition to where it was
C30_Witness ==
    /\ lastCall.op = "move"
    /\ lastCall.returned = FALSE
    /\ lastCall.direction = "right"
    /\ world.characters[1].direction = "right"
    /\ Len(eventLog) = MaxLogSize
    /\ \E i \in 1 .. Len(eventLog) :
          eventLog[i].payload.oldPosition = eventLog[i].payload.newPosition
    /\ \E i \in 1 .. Len(eventLog) :
          Steps(eventLog[i].payload.oldPosition, eventLog[i].payload.newPosition) = 1

----------------------------------------------------------------------------
(* GameMap.findPath against a breadth-first search of the same map *)

RECURSIVE StepsTo(_, _, _, _)
\* the least number of steps from the positions of `reached` over free tiles
\* to the target, n steps having led to `reached`; -1 when no walk gets there
StepsTo(free, reached, target, n) ==
    LET more == {c \in free \ reached :
                    \E r \in reached : Abs(c.x - r.x) + Abs(c.y - r.y) = 1}
    IN  IF target \in reached THEN n
        ELSE IF more = {} THEN -1
        ELSE StepsTo(free, reached \cup more, target, n + 1)

\* a walk from the start to the target, one step to a 4-neighbour at a time,
\* every position after the first on a free tile
IsWalk(path, from, to, free) ==
    /\ Len(path) >= 1
    /\ path[1] = from
    /\ path[Len(path)] = to
    /\ \A k \in 2 .. Len(path) :
          /\ Abs(path[k].x - path[k - 1].x) + Abs(path[k].y - path[k - 1].y) = 1
          /\ path[k] \in free

RECURSIVE Passes(_, _, _, _, _)
\* how many times the while loop of findPath tests its condition, n times so far
Passes(map, to, occupied, search, n) ==
    IF Len(search.openSet) = 0 \/ Head(search.openSet).position = to THEN n + 1
    ELSE Passes(map, to, occupied, Expanded(map, to, occupied, search), n + 1)

\* the passes of the while loop of a call of findPath
PassesOf(map, from, to, occupiedPositions) ==
    Passes(map, to, Range(occupiedPositions),
           [openSet |-> <<[position |-> from, g |-> 0, f |-> heuristic(from, to),
                           parent |-> << >>]>>,
            closedSet |-> {},
            cameFrom |-> << >>], 0)

\* what findPath returned is a shortest walk, or nothing where there is no walk
ShortestWalkOrNone ==
    LET free == Walkable(lastCall.map) \ Range(lastCall.occupiedPositions)
        steps == StepsTo(free, {lastCall.from}, lastCall.to, 0)
    IN  IF steps < 0 THEN lastCall.path = << >>
        ELSE /\ IsWalk(lastCall.path, lastCall.from, lastCall.to, free)
             /\ Len(lastCall.path) = steps + 1

C31_WitnessOccupied ==
    /\ lastCall.op = "findPath"
    /\ lastCall.path = << >>
    /\ lastCall.to \in Range(lastCall.occupiedPositions)
    /\ getDistance(lastCall.from, lastCall.to) = 1

----------------------------------------------------------------------------
(* A World ticked across hours and days, with a handler subscribed to every
   event that writes the type of the event to the simulation log, which
   stamps each line with the time the handler reads *)

\* the start times and speeds of the template
StampedStarts ==
    {[hour |-> hour, minute |-> minute, speed |-> speed] :
        hour \in {22, 23}, minute \in {0, 30}, speed \in {30, 60}}

StampInit ==
    /\ routineGenerator = "getDefaultRoutine"
    /\ localStorage = NoStorage
    /\ planner = << >>
    /\ query = << >>
    /\ \E startTime \in StampedStarts, throwing \in SUBSET {"logger"} :
          Constructed([onAll(fromTemplate(startTime, TemplateTree, 1, "k3j9x2m1q"), "logger")
                          EXCEPT !.throwers = throwing])
    /\ clockRun = NoRun
    /\ NoMemory
    /\ lastCall = NoCall

\* World.tick
StampTick ==
    /\ gameTime.day <= MaxDay
    /\ Called("World.tick", tick(BusState))
    /\ UNCHANGED <<planVars, localStorage, memVars, clockRun>>

StampNext == StampTick

SpecStamp == StampInit /\ [][StampNext]_vars

\* the line addToLog writes at a time
LogLine(at, message) ==
    "[Day " \o ToString(at.day) \o " " \o PadStart2(at.hour) \o ":" \o PadStart2(at.minute)
        \o "] " \o message

\* the lines a call added to the simulation log
AddedLines == SubSeq(world'.simulationLog, Len(world.simulationLog) + 1,
                     Len(world'.simulationLog))

\* the indices of the events of a type among the events a call published
PublishedAt(trace, type) ==
    {k \in 1 .. Len(PublishedTypes(trace)) : PublishedTypes(trace)[k] = type}

\* C33: within a tick time:hour-changed and time:day-changed are published
\* before the new time is stored and time:tick after it: their handlers read
\* the time before the tick, so the line 'Day N begins' of a day rollover
\* carries the last time of the day before, and only what time:tick calls
\* reads the new time
C33_OverflowsSeeOldTime ==
    [][lastCall'.op = "World.tick" =>
          LET trace == lastCall'.trace
              hours == hoursToAdd(gameTime.minute + gameTime.speed)
              days == daysToAdd(gameTime.hour + hours)
              oldLines == {LogLine(gameTime, "time:hour-changed"),
                           LogLine(gameTime, "time:day-changed"),
                           LogLine(gameTime, "Day " \o ToString(gameTime'.day) \o " begins")}
              newLines == {LogLine(gameTime', "time:tick"),
                           LogLine(gameTime', "character:action-changed")}
          IN  /\ \A j \in PublishedAt(trace, "time:hour-changed")
                            \cup PublishedAt(trace, "time:day-changed"),
                    k \in PublishedAt(trace, "time:tick") : j < k
              /\ Cardinality(PublishedAt(trace, "time:hour-changed")) = hours
              /\ Cardinality(PublishedAt(trace, "time:day-changed")) = days
              /\ Cardinality(PublishedAt(trace, "time:tick")) = 1
              /\ Range(AddedLines) \subseteq oldLines \cup newLines
              /\ AddedLines[Len(AddedLines)] = LogLine(gameTime', "time:tick")
              /\ hours > 0 => LogLine(gameTime, "time:hour-changed") \in Range(AddedLines)
              /\ days > 0 =>
                    /\ LogLine(gameTime, "time:day-changed") \in Range(AddedLines)
                    /\ LogLine(gameTime, "Day " \o ToString(gameTime'.day) \o " begins")
                          \in Range(AddedLines)
                    /\ gameTime.day = gameTime'.day - 1]_vars

\* day 2 has begun, and the line that says so is stamped with day 1
C33_Witness ==
    /\ lastCall.op = "World.tick"
    /\ gameTime.day = 2 /\ gameTime.hour = 0
    /\ \E k \in 1 .. Len(world.simulationLog) :
          world.simulationLog[k] \in
              {LogLine([day |-> 1, hour |-> 23, minute |-> minute], "Day 2 begins") :
                  minute \in {0, 30}}
    /\ "logger" \in throwers

----------------------------------------------------------------------------
(* A WorldState that serialize returned, or that loadState was given, next to
   the World it came from or went to.  clockRun.taken is << >> or <<the state
   as it was returned>>; clockRun.held is << >> or <<the state object whose
   lists loadState has stored in the World>> *)

SnapshotInit ==
    /\ routineGenerator = "getDefaultRoutine"
    /\ localStorage = NoStorage
    /\ planner = << >>
    /\ query = << >>
    /\ \E random \in RandomSuffixes :
        Constructed(fromTemplate([hour |-> 23, minute |-> 59], TemplateTree, 1, random))
    /\ clockRun = [taken |-> << >>, held |-> << >>]
    /\ NoMemory
    /\ lastCall = NoCall

\* const snapshot = world.serialize()
TakeSnapshot ==
    /\ clockRun.taken = << >>
    /\ clockRun.held = << >>
    /\ Returned(serialize(BusState))
    /\ lastCall' = [op |-> "World.serialize"]
    /\ clockRun' = [clockRun EXCEPT !.taken = <<WorldStateOf(serialize(BusState))>>]
    /\ UNCHANGED <<planVars, localStorage, memVars>>

\* world.loadState(state) with a state object that the caller keeps
LoadHeld ==
    /\ clockRun.taken = << >>
    /\ clockRun.held = << >>
    /\ Called("World.loadState", loadState(BusState, SavedState))
    /\ clockRun' = [clockRun EXCEPT !.held = <<SavedState>>]
    /\ UNCHANGED <<planVars, localStorage, memVars>>

\* state.simulationLog.push(line) by the caller, after loadState(state) has
\* stored state.simulationLog, the array itself, in the World
PushToHeld ==
    /\ clockRun.held # << >>
    /\ Len(world.simulationLog) < MaxLogLines
    /\ world' = [world EXCEPT !.simulationLog = Append(@, "edited by the caller")]
    /\ clockRun' = [clockRun EXCEPT
                      !.held[1].simulationLog = Append(world.simulationLog, "edited by the caller")]
    /\ lastCall' = [op |-> "state.simulationLog.push"]
    /\ UNCHANGED <<planVars, localStorage, memVars, listeners, wildcardListeners, eventLog,
                   throwers, gameTime, now>>

\* a conversation is started before the state is taken
SnapshotStart == clockRun.taken = << >> /\ StartConversation

SnapshotNext ==
    \/ TakeSnapshot
    \/ LoadHeld
    \/ PushToHeld
    \/ SnapshotStart
    \/ EndConversation
    \/ SaveTick
    \/ \E newState \in {"on", "off"} : UpdateObjectState("tv", newState)

SpecSnapshot == SnapshotInit /\ [][SnapshotNext]_vars

\* what a state taken earlier holds now.  serialize returned the World's own
\* simulationLog and diffusionLog arrays, the environment's own tree and, in
\* a new array, the Conversation objects of the manager, which addToLog,
\* updateObjectState, addMessage and end change in place; the time, the
\* timestamps and the characters' fields kept here were copied
SnapshotNow(taken, w) ==
    [taken EXCEPT
        !.simulationLog = w.simulationLog,
        !.diffusionLog = w.diffusionLog,
        !.environment = w.environment,
        !.conversations = [i \in 1 .. Len(taken.conversations) |->
                              StoredIn(w, taken.conversations[i].id)[1]]]

\* C34: what a state returned by serialize holds stays what it was when it
\* was returned, whatever is done to the World afterwards, and a change the
\* caller makes to a state object it has passed to loadState leaves the World
\* as it was
C34_SnapshotIsIndependent ==
    /\ [](clockRun.taken # << >> => SnapshotNow(clockRun.taken[1], world) = clockRun.taken[1])
    /\ [][lastCall'.op = "state.simulationLog.push" => world' = world]_vars

----------------------------------------------------------------------------
(* WorldManager: the current World of a manager, created from a template,
   saved through the LocalStorageAdapter and loaded again *)

\* most worlds the browser has room for
MaxSaved == 2

\* World.serialize with the name and the description that the adapter lists
serializeNamed(st) ==
    [WorldStateOf(serialize(st)) EXCEPT
        !.config = [id |-> @.id, name |-> "Pasadena", description |-> "An apartment building",
                    startTime |-> @.startTime]]

\* the keys of the world entries in a localStorage
StoredKeys(storage) == {key \in DOMAIN storage.items : key[1] = STORAGE_PREFIX}

ManagerInit ==
    /\ routineGenerator = "getDefaultRoutine"
    /\ localStorage = [items |-> << >>, available |-> TRUE,
                       quota |-> MaxSaved * (StateLength + 1)]
    /\ planner = << >>
    /\ query = << >>
    /\ Unwired
    /\ lastCall = NoCall

\* a call of the manager has settled
Managed(op, worldId, st, storage, exception) ==
    /\ Returned(st)
    /\ localStorage' = storage
    /\ lastCall' = [op |-> op, worldId |-> worldId, exception |-> exception]
    /\ UNCHANGED <<planVars, memVars, clockRun>>

\* WorldManager.createWorld
CreateWorld(random) ==
    /\ world = NoWorld
    /\ Managed("createWorld", "",
               fromTemplate([hour |-> 23, minute |-> 59], TemplateTree, now, random),
               localStorage, "")

\* await WorldManager.saveCurrentWorld()
SaveCurrentWorld ==
    /\ world # NoWorld
    /\ \E saved \in {save(localStorage, world.id, serializeNamed(BusState))} :
          Managed("saveCurrentWorld", world.id, serialize(BusState),
                  saved.storage, saved.exception)

\* await WorldManager.loadWorld(worldId, template), the world being stored
LoadWorld(worldId, random) ==
    /\ WorldKey(worldId) \in StoredKeys(localStorage)
    /\ Managed("loadWorld", worldId,
               loadState(fromTemplate([hour |-> 23, minute |-> 59], TemplateTree, now, random),
                         load(localStorage, worldId).returned[1]),
               localStorage, "")

\* WorldManager.importWorldFromJson(exportWorldAsJson(world), template)
ImportWorld(random) ==
    /\ world # NoWorld
    /\ Managed("importWorldFromJson", world.id,
               loadState(fromTemplate([hour |-> 23, minute |-> 59], TemplateTree, now, random),
                         JSONparse(stringifyState(serializeNamed(BusState)))),
               localStorage, "")

\* time passes
Later ==
    /\ now < MaxNow
    /\ now' = now + 1
    /\ UNCHANGED <<planVars, memVars, clockRun, localStorage, lastCall, listeners,
                   wildcardListeners, eventLog, throwers, gameTime, world>>

ManagerNext ==
    \/ \E random \in RandomSuffixes : CreateWorld(random)
    \/ SaveCurrentWorld
    \/ \E key \in StoredKeys(localStorage), random \in RandomSuffixes : LoadWorld(key[2], random)
    \/ \E random \in RandomSuffixes : ImportWorld(random)
    \/ Later

SpecManager == ManagerInit /\ [][ManagerNext]_vars

\* C35: the world loadWorld or importWorldFromJson returns has the id of the
\* state it was loaded from, so a saveCurrentWorld that follows writes the
\* entry of that id again and adds none
C35_LoadedWorldKeepsId ==
    /\ [](lastCall.op \in {"loadWorld", "importWorldFromJson"} => world.id = lastCall.worldId)
    /\ [][/\ lastCall.op \in {"loadWorld", "importWorldFromJson"}
          /\ lastCall'.op = "saveCurrentWorld"
          /\ lastCall'.exception = ""
          /\ WorldKey(lastCall.worldId) \in StoredKeys(localStorage)
          => /\ lastCall'.worldId = lastCall.worldId
             /\ StoredKeys(localStorage') = StoredKeys(localStorage)]_vars

\* C36: every start() stores a conversation under an id that no stored
\* conversation has, so the stored conversations are one more than before and
\* those stored before are all still there, also when two conversations are
\* started at the same reading of the clock
C36_StartNeverOverwrites ==
    [][lastCall'.op = "conversations.start" =>
          /\ lastCall'.result \notin {c.id : c \in Range(world.conversations)}
          /\ Len(world'.conversations) = Len(world.conversations) + 1
          /\ \A c \in Range(world.conversations) : c \in Range(world'.conversations)]_vars

----------------------------------------------------------------------------
(* CharacterManager.ts: what Character.serialize keeps of the character's memory stream
   and what the constructor, which Character.deserialize calls, makes of it *)

\* Character.serialize: memoryStream: this.memoryStream.getAll()
serializedMemoryStream(st) == getAll(st)

\* the Character constructor: this.memoryStream = new MemoryStream(data.memoryStream)
constructedMemoryStream(data) == NewMemoryStream(data)

CharacterInit == ReflectInit

\* memoryStream.recordDiffusion on the first memory of the character, told once
CharacterRecordDiffusion ==
    /\ Len(memoryStream.memories) > 0
    /\ Len(memoryStream.diffusionLog) < MaxDiffusions
    /\ ~diffusedToIncludes(memoryStream.memories[1], "penny")
    /\ memoryStream' = recordDiffusion(memoryStream, 1,
                                       "sheldon", "penny", "conversation", now,
                                       ToString(Len(memoryStream.diffusionLog)))
    /\ lastCall' = [lastCall EXCEPT !.op = "recordDiffusion"]
    /\ UNCHANGED <<planVars, localStorage, busVars, clockRun, reflectedAt>>

\* Character.deserialize(character.serialize(), eventBus) taking the character's place
CharacterRoundTrip ==
    /\ memoryStream' = constructedMemoryStream(serializedMemoryStream(memoryStream))
    /\ reflectedAt' = Len(memoryStream.memories)
    /\ lastCall' = [lastCall EXCEPT !.op = "Character.deserialize"]
    /\ UNCHANGED <<planVars, localStorage, busVars, clockRun>>

CharacterNext ==
    \/ ReflectAdd
    \/ ResetImportanceAccumulator
    \/ CharacterRecordDiffusion
    \/ CharacterRoundTrip

SpecCharacter == CharacterInit /\ [][CharacterNext]_vars

\* C37: a character serialized and deserialized has the memory list, the importance
\* accumulator, the answer of shouldReflect() and the diffusion events it had before
C37_RoundTripKeepsStream ==
    [][lastCall'.op = "Character.deserialize" =>
          /\ getAll(memoryStream') = getAll(memoryStream)
          /\ memoryStream'.importanceAccumulator = memoryStream.importanceAccumulator
          /\ shouldReflect(memoryStream') = shouldReflect(memoryStream)
          /\ memoryStream'.diffusionLog = memoryStream.diffusionLog]_vars

\* the part of the round trip that the code does keep: the memory list
RoundTripKeepsMemories ==
    [][lastCall'.op = "Character.deserialize" =>
          getAll(memoryStream') = getAll(memoryStream)]_vars

----------------------------------------------------------------------------
(* ConversationManager: a conversation that is spoken in after it ended, past the turn
   limit, and ended again *)

\* lastMessage.content.toLowerCase() includes one of the farewellKeywords, for what is
\* said in the model: 'see you' and 'later' are in "See you later"
includesFarewell(content) == content = "See you later"

\* ConversationManager.shouldEnd
shouldEnd(st, conversationId) ==
    LET found == getConversation(st, conversationId)
    IN  IF found = << >> THEN TRUE
        ELSE IF Len(found[1].messages) >= 10 THEN TRUE
        ELSE IF Len(found[1].messages) > 0
                  /\ includesFarewell(found[1].messages[Len(found[1].messages)].content)
             THEN TRUE
        ELSE FALSE

\* what is said as message number said + 1
TurnLine(said) ==
    IF said = 0 THEN "Hello" ELSE IF said = 2 THEN "See you later" ELSE "Bazinga"

\* clockRun tells whether a message was added to an ended conversation and whether an
\* ended conversation was ended at a later time
TurnInit ==
    /\ routineGenerator = "getDefaultRoutine"
    /\ localStorage = NoStorage
    /\ planner = << >>
    /\ query = << >>
    /\ Constructed(addCharacters(onAll(NewManagers(0), "plain"), CastTemplates, 1))
    /\ clockRun = [stale |-> FALSE, restamped |-> FALSE]
    /\ NoMemory
    /\ lastCall = NoCall

TurnStart ==
    /\ world.conversations = << >>
    /\ Answered("conversations.start", "", "conv-" \o ToString(now),
                startConversation(BusState, <<"sheldon", "penny">>, [x |-> 2, y |-> 2]))
    /\ UNCHANGED <<planVars, localStorage, memVars, clockRun>>

TurnAddMessage(conversationId) ==
    /\ SaidIn(world.conversations, 1) < MaxTurns
    /\ LET found == getConversation(BusState, conversationId)
           content == TurnLine(IF found = << >> THEN 0 ELSE Len(found[1].messages))
       IN  /\ Answered("conversations.addMessage", conversationId,
                       addMessageReturns(BusState, conversationId, "penny", content),
                       addMessage(BusState, conversationId, "penny", content))
           /\ clockRun' = [clockRun EXCEPT !.stale =
                              @ \/ (found # << >> /\ found[1].endTime # << >>)]
    /\ UNCHANGED <<planVars, localStorage, memVars>>

TurnEnd(conversationId) ==
    /\ Answered("conversations.end", conversationId, << >>,
                endConversation(BusState, conversationId))
    /\ LET found == getConversation(BusState, conversationId)
       IN  clockRun' = [clockRun EXCEPT !.restamped =
                           @ \/ (found # << >> /\ found[1].endTime # << >>
                                    /\ found[1].endTime # <<now>>)]
    /\ UNCHANGED <<planVars, localStorage, memVars>>

TurnShouldEnd(conversationId) ==
    /\ Answered("conversations.shouldEnd", conversationId,
                shouldEnd(BusState, conversationId), BusState)
    /\ UNCHANGED <<planVars, localStorage, memVars, clockRun>>

\* time passes between two calls
TurnLater ==
    /\ now < MaxNow
    /\ now' = now + 1
    /\ lastCall' = NoCall
    /\ UNCHANGED <<planVars, memVars, clockRun, localStorage, listeners,
                   wildcardListeners, eventLog, throwers, gameTime, world>>

TurnNext ==
    \/ TurnStart
    \/ \E conversationId \in ConversationIds :
          \/ TurnAddMessage(conversationId)
          \/ TurnEnd(conversationId)
          \/ TurnShouldEnd(conversationId)
    \/ TurnLater

SpecTurn == TurnInit /\ [][TurnNext]_vars

\* shouldEnd reports the turn limit and changes nothing
CapIsReported ==
    \A c \in Range(world.conversations) :
        Len(c.messages) >= 10 => shouldEnd(BusState, c.id)

\* C38: addMessage on a stored conversation appends the message and publishes
\* conversation:message whether or not the conversation has an end time and however
\* many messages it holds, the turn limit of 10 being reported by shouldEnd alone; and
\* end() on a conversation that has an end time stamps the end time anew and publishes
\* conversation:ended again
C38_ManagerKeepsNoGuard ==
    /\ []CapIsReported
    /\ [][/\ (lastCall'.op = "conversations.addMessage"
                  /\ StoredIn(world, lastCall'.argument) # << >>)
                => /\ lastCall'.result # << >>
                   /\ StoredIn(world', lastCall'.argument)[1].messages =
                         Append(StoredIn(world, lastCall'.argument)[1].messages,
                                lastCall'.result[1])
                   /\ StoredIn(world', lastCall'.argument)[1].endTime =
                         StoredIn(world, lastCall'.argument)[1].endTime
                   /\ PublishedOf(lastCall'.trace, "conversation:message") = 1
          /\ (lastCall'.op = "conversations.end"
                  /\ StoredIn(world, lastCall'.argument) # << >>
                  /\ StoredIn(world, lastCall'.argument)[1].endTime # << >>)
                => /\ StoredIn(world', lastCall'.argument)[1].endTime = <<now'>>
                   /\ StoredIn(world', lastCall'.argument)[1].messages =
                         StoredIn(world, lastCall'.argument)[1].messages
                   /\ PublishedOf(lastCall'.trace, "conversation:ended") = 1
          /\ lastCall'.op = "conversations.shouldEnd" => world' = world]_vars

\* a conversation that was spoken in after it ended holds more than 10 messages and has
\* just been ended again, at a later time than before
C38_Witness ==
    /\ lastCall.op = "conversations.end"
    /\ StoredIn(world, lastCall.argument) # << >>
    /\ Len(StoredIn(world, lastCall.argument)[1].messages) > 10
    /\ clockRun.stale
    /\ clockRun.restamped
    /\ PublishedOf(lastCall.trace, "conversation:ended") = 1

----------------------------------------------------------------------------
(* MemoryStream.retrieve: what weights.recency and the hours elapsed do to the result *)

\* the hours elapsed a call is made with
ElapsedHours == {Num(2), Infinity, NaN}

\* the weights a call is made with, weights.recency being 0, positive and negative
RecencyWeights ==
    {[recency |-> 0, importance |-> 1, relevance |-> 1],
     [recency |-> 2, importance |-> 1, relevance |-> 1],
     [recency |-> 0 - 3, importance |-> 1, relevance |-> 2]}

RecencyInit ==
    /\ routineGenerator = "default"
    /\ localStorage = NoStorage
    /\ planner = << >>
    /\ query = << >>
    /\ listeners = [type \in EventTypes |-> << >>]
    /\ wildcardListeners = << >>
    /\ eventLog = << >>
    /\ throwers = {}
    /\ gameTime = DEFAULT_TIME
    /\ world = NoWorld
    /\ now = 1
    /\ clockRun = NoRun
    /\ reflectedAt = 0
    /\ \E entries \in SeqsUpTo(MemoryPool, MaxMemories) :
          memoryStream = NewMemoryStream(CreatedFrom(entries, 0))
    /\ \E queryText \in Queries, weights \in RecencyWeights, topK \in 1 .. MaxTopK,
          gameHoursPassed \in ElapsedHours :
          lastCall = [op |-> "none", queryText |-> queryText, weights |-> weights,
                      topK |-> topK, gameHoursPassed |-> gameHoursPassed]

RecencyNext == Retrieve

SpecRecency == RecencyInit /\ [][RecencyNext]_vars

\* what the call returns with weights.recency = 0 and no hours elapsed
WithoutRecency ==
    retrieve(lastCall.before, lastCall.queryText, Num(0),
             [lastCall.weights EXCEPT !.recency = 0], lastCall.topK, now).results

\* the first topK memories of the stream in the order of insertion
FirstInserted ==
    [k \in 1 .. Min2(lastCall.topK, Len(lastCall.before.memories)) |->
        [lastCall.before.memories[k] EXCEPT !.lastAccessedAt = now]]

C39_WitnessNaN ==
    /\ lastCall.op = "retrieve"
    /\ lastCall.gameHoursPassed = NaN
    /\ lastCall.results = FirstInserted
    /\ lastCall.results # WithoutRecency

====
